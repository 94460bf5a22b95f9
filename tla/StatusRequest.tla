--------------------------- MODULE StatusRequest ---------------------------
(***************************************************************************)
(* A status request (status/ngx_healthcheck_request.c) collecting the      *)
(* snapshots of one or two sources (status/ngx_healthcheck_snapshot.c)     *)
(* while the workers publish new verdicts.                                 *)
(*                                                                         *)
(* The collection runs in a handler of the event loop and reads one record *)
(* after the other; other processes publish in between.  It stops when a   *)
(* record's lock is busy or its batch is used up, and a timer resumes it.  *)
(* While the request waits the client may go away and the core may         *)
(* terminate the request.                                                  *)
(***************************************************************************)
EXTENDS Naturals, Sequences

CONSTANTS
    Sizes,      \* number of peers of each source (0: the source is missing)
    Batch,      \* NGX_HEALTHCHECK_STATUS_BATCH
    WarnAfter,  \* NGX_HEALTHCHECK_STATUS_WARN_MS
    LogEvery,   \* NGX_HEALTHCHECK_STATUS_LOG_MS
    MaxTime     \* bound: the clock stops here

ASSUME StatusAssumption ==
    /\ Sizes \in Seq(Nat) /\ Len(Sizes) \in 1..2
    /\ Batch \in Nat \ {0}
    /\ WarnAfter \in Nat /\ LogEvery \in Nat /\ MaxTime \in Nat \ {0}

Sources == DOMAIN Sizes
Records == UNION {{s} \X (1..Sizes[s]) : s \in Sources}
Filters == {"all", "down", "up"}

VARIABLES
    now,        \* the monotonic clock
    down,       \* the published verdict of each record
    conn,       \* whether the connection is still good
    refs,       \* r->main->count, as far as this request is concerned
    pc,         \* "content", "collect", "wait" or "end"
    timer,      \* ctx->retry.timer_set
    cleanup,    \* the handler in the request's cleanup chain is set
    flag,       \* which peers the client asked for
    remaining,  \* what is left of the batch
    source,     \* ctx->module
    snapshots,  \* next, up and the selected peers of each source
    waiting,    \* the record waited for, since when, and when to report it
    log,        \* the number of reports, and the latest one
    answer      \* "none", "report", "error" or "aborted"

collection == <<flag, source, snapshots>>
vars == <<now, down, conn, refs, pc, timer, cleanup, collection, remaining,
          waiting, log, answer>>

NotWaiting == [record |-> <<0, 0>>, started |-> 0, nextLog |-> 0]
NoLog == [count |-> 0, at |-> 0, elapsed |-> 0]
NoSnapshot == [next |-> 0, up |-> 0, rows |-> <<>>]

Init ==
    /\ now = 1
    /\ down \in [Records -> BOOLEAN]
    /\ conn \in BOOLEAN
    /\ refs = 1 /\ pc = "content"
    /\ timer = FALSE /\ cleanup = FALSE
    /\ flag \in Filters
    /\ remaining = 0 /\ source = 1
    /\ snapshots = [s \in Sources |-> NoSnapshot]
    /\ waiting = NotWaiting /\ log = NoLog
    /\ answer = "none"

----------------------------------------------------------------------------
(***************************************************************************)
(* The end of a request.  A plausible bug: the cleanup leaves the timer.   *)
(***************************************************************************)
KeepTimer == UNCHANGED timer

\* ngx_healthcheck_request_cleanup
DeleteTimer == timer' = FALSE

\* The request is cleaned up.  Its last reference is given back: by the core when
\* the content handler returns, by ngx_http_finalize_request later; a terminated
\* request loses all of them.
End(kind) ==
    /\ pc' = "end" /\ answer' = kind
    /\ cleanup' = FALSE /\ DeleteTimer
    /\ refs' = IF kind = "aborted" THEN 0 ELSE refs - 1

----------------------------------------------------------------------------
(***************************************************************************)
(* Waiting                                                                 *)
(***************************************************************************)
Larger(a, b) == IF a >= b THEN a ELSE b

\* A plausible bug: the report of a new record is scheduled without regard to
\* the last report.
NextLogAfresh(at) == at + WarnAfter

\* The wait is counted for one record, the reports for the whole request.
NextLog(at) == Larger(waiting.nextLog, at + WarnAfter)

Current == <<source, snapshots[source].next>>

\* A busy record is reported when the request has waited for it long enough.
Waited ==
    LET same == waiting.started # 0 /\ waiting.record = Current
        since == IF same THEN waiting
                 ELSE [record |-> Current, started |-> now, nextLog |-> NextLog(now)]
    IN  IF now >= since.nextLog
        THEN /\ waiting' = [since EXCEPT !.nextLog = now + LogEvery]
             /\ log' = [count |-> log.count + 1, at |-> now,
                        elapsed |-> now - since.started]
        ELSE waiting' = since /\ UNCHANGED log

\* A plausible bug: the content handler does not take a reference of its own.
NoReference == refs

\* NGX_DONE gives back the reference of the content phase.
TakeReference == refs + 1

\* The first wait of a request.
First == ~cleanup

\* The request waits for its timer.
Suspend ==
    /\ timer' = TRUE /\ cleanup' = TRUE /\ pc' = "wait"
    /\ refs' = IF First THEN TakeReference - 1 ELSE refs
    /\ UNCHANGED answer

\* ngx_healthcheck_request_wait after a busy record (where the clock can be
\* read) or an exhausted batch.
WaitFor(contended) ==
    /\ (contended /\ Waited) \/ UNCHANGED <<waiting, log>>
    /\ Suspend
    /\ UNCHANGED <<now, down, conn, collection, remaining>>

----------------------------------------------------------------------------
(***************************************************************************)
(* Collecting                                                              *)
(***************************************************************************)
\* ngx_healthcheck_status_request; without memory or connection it fails.
Request ==
    /\ pc = "content"
    /\ \/ /\ conn
          /\ pc' = "collect" /\ remaining' = Batch
          /\ UNCHANGED <<refs, timer, cleanup, answer>>
       \/ End("error") /\ UNCHANGED remaining
    /\ UNCHANGED <<now, down, conn, collection, waiting, log>>

\* A plausible bug: a resumed request goes on with what was left of its batch.
LeftOver == remaining

FullBatch == Batch

\* The timer fires (ngx_healthcheck_request_resume).
Resume ==
    /\ pc = "wait" /\ timer
    /\ \/ /\ conn
          /\ pc' = "collect" /\ timer' = FALSE /\ remaining' = FullBatch
          /\ UNCHANGED <<refs, cleanup, answer>>
       \/ ~conn /\ End("aborted") /\ UNCHANGED remaining
    /\ UNCHANGED <<now, down, conn, collection, waiting, log>>

MoreRecords == source \in Sources /\ snapshots[source].next < Sizes[source]

\* Does the filter keep a record with this verdict?
Kept(verdict) ==
    IF flag = "down" THEN verdict ELSE flag = "up" => ~verdict

\* A plausible bug: only what the filter keeps is counted.
CountsUp(verdict) == ~verdict /\ Kept(verdict)

Healthy(verdict) == ~verdict

\* The next record is read (ngx_healthcheck_snapshot_step).
ReadRecord ==
    /\ pc = "collect" /\ MoreRecords /\ remaining > 0
    /\ LET snap == snapshots[source]
           i == snap.next + 1
           verdict == down[<<source, i>>]
           row == [peer |-> <<source, i>>, down |-> verdict]
       IN  snapshots' = [snapshots EXCEPT ![source] =
              [next |-> i, up |-> snap.up + IF Healthy(verdict) THEN 1 ELSE 0,
               rows |-> IF Kept(verdict) THEN Append(snap.rows, row) ELSE snap.rows]]
    /\ remaining' = remaining - 1
    /\ UNCHANGED <<now, down, conn, refs, pc, timer, cleanup, flag, source,
                   waiting, log, answer>>

SourceDone ==
    /\ pc = "collect" /\ source \in Sources /\ ~MoreRecords
    /\ source' = source + 1
    /\ UNCHANGED <<now, down, conn, refs, pc, timer, cleanup, flag, snapshots,
                   remaining, waiting, log, answer>>

\* The record's lock is busy (NGX_AGAIN).
Contended ==
    /\ pc = "collect" /\ MoreRecords /\ remaining > 0
    /\ WaitFor(TRUE)

\* The batch is used up (NGX_BUSY).
Exhausted ==
    /\ pc = "collect" /\ MoreRecords /\ remaining = 0
    /\ WaitFor(FALSE)

\* The shared state of the record is missing, or there is no memory for a row;
\* the snapshots are not looked at again.
ReadFails ==
    /\ pc = "collect" /\ MoreRecords /\ remaining > 0
    /\ End("error")
    /\ UNCHANGED <<now, down, conn, collection, remaining, waiting, log>>

\* The request would have to wait, but the cleanup handler or the read event of
\* the connection cannot be set.
WaitFails ==
    /\ pc = "collect" /\ MoreRecords
    /\ End(IF First THEN "error" ELSE "aborted")
    /\ UNCHANGED <<now, down, conn, collection, remaining, waiting, log>>

\* Everything is collected: the answer is formatted and sent.
Output ==
    /\ pc = "collect" /\ source \notin Sources
    /\ \E kind \in {"report", "error"} : End(kind)
    /\ UNCHANGED <<now, down, conn, collection, remaining, waiting, log>>

----------------------------------------------------------------------------
(***************************************************************************)
(* The environment                                                         *)
(***************************************************************************)
\* A worker publishes a new verdict.
Publish ==
    /\ \E r \in Records : down' = [down EXCEPT ![r] = ~@]
    /\ UNCHANGED <<now, conn, refs, pc, timer, cleanup, collection, remaining,
                   waiting, log, answer>>

\* The connection fails; its events have not been handled yet.
LoseConnection ==
    /\ pc = "wait" /\ conn
    /\ conn' = FALSE
    /\ UNCHANGED <<now, down, refs, pc, timer, cleanup, collection, remaining,
                   waiting, log, answer>>

\* ngx_healthcheck_request_read finds the client gone, or the core ends the
\* request: the cleanup chain runs.
Cancel ==
    /\ pc = "wait"
    /\ End("aborted")
    /\ UNCHANGED <<now, down, conn, collection, remaining, waiting, log>>

Tick ==
    /\ now < MaxTime
    /\ now' = now + 1
    /\ UNCHANGED <<down, conn, refs, pc, timer, cleanup, collection, remaining,
                   waiting, log, answer>>

Handler ==
    \/ Request \/ Resume
    \/ ReadRecord \/ SourceDone \/ Contended \/ Exhausted
    \/ ReadFails \/ WaitFails \/ Output

Next == Handler \/ Publish \/ LoseConnection \/ Cancel \/ Tick

Spec == Init /\ [][Next]_vars

(***************************************************************************)
(* The event loop goes on with a running handler and serves the timer of a *)
(* waiting request; a record's lock is not busy at every single attempt.   *)
(***************************************************************************)
Fairness == WF_vars(Handler) /\ SF_vars(ReadRecord)

FairSpec == Spec /\ Fairness

----------------------------------------------------------------------------
(***************************************************************************)
(* Properties                                                              *)
(***************************************************************************)
Rows == [peer : Records, down : BOOLEAN]

\* Every variable keeps its type; a snapshot has no more rows than records read.
TypeOK ==
    /\ now \in 1..MaxTime
    /\ down \in [Records -> BOOLEAN]
    /\ conn \in BOOLEAN /\ timer \in BOOLEAN /\ cleanup \in BOOLEAN
    /\ refs \in Nat
    /\ pc \in {"content", "collect", "wait", "end"}
    /\ flag \in Filters
    /\ remaining \in 0..Batch
    /\ source \in 1..(Len(Sizes) + 1)
    /\ snapshots \in [Sources -> [next : Nat, up : Nat, rows : Seq(Rows)]]
    /\ \A s \in Sources :
          /\ snapshots[s].next \in 0..Sizes[s]
          /\ snapshots[s].up \in 0..snapshots[s].next
          /\ Len(snapshots[s].rows) <= snapshots[s].next
    /\ waiting \in [record : Nat \X Nat, started : Nat, nextLog : Nat]
    /\ log \in [count : Nat, at : Nat, elapsed : Nat]
    /\ answer \in {"none", "report", "error", "aborted"}

\* The timer is set exactly while the request waits: a timer that outlives its
\* request (whatever ended it: the client, the core, or its own answer) would
\* resume in freed memory, and a waiting request without one never ends.
TimerIffWaiting == timer <=> pc = "wait"

\* The request keeps a reference until it ends, and none beyond: the content
\* phase gives its own back (NGX_DONE) while the request waits, and every way to
\* end gives back exactly one.
HeldUntilEnd == (refs > 0) <=> (pc # "end")

\* "After waiting 1s on one peer, a diagnostic includes the peer and elapsed_ms;
\* later messages for the same request are at least 5s apart" (README): however
\* the waits for several records follow each other.
ReportsApart ==
    [][log'.count # log.count =>
          /\ log'.elapsed >= WarnAfter
          /\ log.count # 0 => log'.at >= log.at + LogEvery]_vars

\* What was read of a record: a row left out by the filter has the other verdict.
WasRead(r) ==
    LET rows == snapshots[r[1]].rows
    IN  IF \E k \in DOMAIN rows : rows[k].peer = r
        THEN \E k \in DOMAIN rows : rows[k].peer = r /\ rows[k].down
        ELSE flag = "up"

ReadSoFar == [s \in Sources |-> [i \in 1..snapshots[s].next |-> WasRead(<<s, i>>)]]

Outcome ==
    CASE answer = "none" -> "open" [] answer = "report" -> "answered" [] OTHER -> "failed"

\* The snapshots are in the answer when there is one.
Shown ==
    LET given == answer = "report"
    IN  [rows |-> [s \in Sources |-> IF given THEN snapshots[s].rows ELSE <<>>],
         up |-> [s \in Sources |-> IF given THEN snapshots[s].up ELSE 0]]

Report == INSTANCE StatusReport WITH
    filter <- flag, seen <- ReadSoFar, outcome <- Outcome, shown <- Shown

\* Through batches, busy records and resumptions each record is read once and in
\* order, and the answer shows and counts what was read, although verdicts change
\* meanwhile (snapshot_step and request_collect).
ImplementsStatusReport == Report!RSpec

\* A request ends, with an answer or without.
RequestEnds == <>(pc = "end")

=============================================================================
