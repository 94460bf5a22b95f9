------------------------ MODULE StatusRequestProofs ------------------------
(***************************************************************************)
(* For every number of peers and every batch and delay: a status request   *)
(* keeps its timer exactly while it waits and its reference until it ends, *)
(* its reports keep their distance, and it implements the abstract report. *)
(***************************************************************************)
EXTENDS StatusRequest, SequenceTheorems, FiniteSetTheorems, TLAPS

(***************************************************************************)
(* The inductive invariant.  Between two handlers the request holds one    *)
(* reference; the time of the next report lies WarnAfter behind the start  *)
(* of the wait and LogEvery behind the last report.                        *)
(***************************************************************************)
OneReference == refs = IF pc = "end" THEN 0 ELSE 1

ReportsSpaced ==
    /\ waiting.started <= now
    /\ waiting.started # 0 => waiting.nextLog >= waiting.started + WarnAfter
    /\ log.count # 0 => waiting.nextLog >= log.at + LogEvery

RequestInv == TypeOK /\ TimerIffWaiting /\ OneReference /\ ReportsSpaced

LEMMA SourcesAreNumbers ==
    /\ Sources = 1..Len(Sizes) /\ Len(Sizes) \in Nat \ {0}
    /\ \A s \in Sources : Sizes[s] \in Nat
<1>1. Sizes \in Seq(Nat)
  BY StatusAssumption
<1>2. Sizes \in [1..Len(Sizes) -> Nat] /\ DOMAIN Sizes = 1..Len(Sizes)
  BY <1>1, LenProperties
<1>3. Len(Sizes) \in Nat \ {0}
  BY StatusAssumption
<1> QED BY <1>2, <1>3 DEF Sources

LEMMA InitRequest == ASSUME Init PROVE RequestInv
<1> USE StatusAssumption, SourcesAreNumbers
<1>1. TypeOK
  <2>1. NoSnapshot \in [next : Nat, up : Nat, rows : Seq(Rows)]
    BY DEF NoSnapshot
  <2>2. /\ NoSnapshot.next = 0 /\ NoSnapshot.up = 0
        /\ Len(NoSnapshot.rows) = 0
    BY DEF NoSnapshot
  <2>3. /\ snapshots \in [Sources -> [next : Nat, up : Nat, rows : Seq(Rows)]]
        /\ \A s \in Sources :
              /\ snapshots[s].next \in 0..Sizes[s]
              /\ snapshots[s].up \in 0..snapshots[s].next
              /\ Len(snapshots[s].rows) <= snapshots[s].next
    BY <2>1, <2>2 DEF Init
  <2>4. /\ waiting \in [record : Nat \X Nat, started : Nat, nextLog : Nat]
        /\ log \in [count : Nat, at : Nat, elapsed : Nat]
    BY DEF Init, NotWaiting, NoLog
  <2>5. source \in 1..(Len(Sizes) + 1) /\ now \in 1..MaxTime /\ remaining \in 0..Batch
    BY DEF Init
  <2> QED BY <2>3, <2>4, <2>5 DEF Init, TypeOK
<1>2. TimerIffWaiting /\ OneReference
  BY DEF Init, TimerIffWaiting, OneReference
<1>3. ReportsSpaced
  BY DEF Init, ReportsSpaced, NotWaiting, NoLog
<1> QED BY <1>1, <1>2, <1>3 DEF RequestInv

(***************************************************************************)
(* One wait for a busy record.                                             *)
(***************************************************************************)
LEMMA WaitedStep ==
    ASSUME TypeOK, ReportsSpaced, MoreRecords, Waited
    PROVE  /\ waiting' \in [record : Nat \X Nat, started : Nat, nextLog : Nat]
           /\ log' \in [count : Nat, at : Nat, elapsed : Nat]
           /\ waiting'.started <= now
           /\ waiting'.started # 0 =>
                 waiting'.nextLog >= waiting'.started + WarnAfter
           /\ log'.count # 0 => waiting'.nextLog >= log'.at + LogEvery
           /\ log'.count # log.count =>
                 /\ log'.elapsed >= WarnAfter
                 /\ log.count # 0 => log'.at >= log.at + LogEvery
<1> USE StatusAssumption, SourcesAreNumbers
<1> DEFINE same == waiting.started # 0 /\ waiting.record = Current
           since == IF same THEN waiting
                    ELSE [record |-> Current, started |-> now,
                          nextLog |-> NextLog(now)]
<1>1. now \in Nat \ {0}
  BY DEF TypeOK
<1>2. Current \in Nat \X Nat
  BY DEF TypeOK, Current, MoreRecords
<1>3. /\ NextLog(now) \in Nat /\ NextLog(now) >= waiting.nextLog
      /\ NextLog(now) >= now + WarnAfter
  BY <1>1 DEF TypeOK, NextLog, Larger
<1>4. since \in [record : Nat \X Nat, started : Nat, nextLog : Nat]
  BY <1>1, <1>2, <1>3 DEF TypeOK
<1>5. /\ since.started <= now /\ since.started # 0
      /\ since.nextLog >= since.started + WarnAfter
      /\ log.count # 0 => since.nextLog >= log.at + LogEvery
  <2>1. CASE same
    <3>1. since = waiting
      BY <2>1
    <3>2. QED
      BY <1>1, <2>1, <3>1 DEF TypeOK, ReportsSpaced
  <2>2. CASE ~same
    <3>1. since.started = now /\ since.nextLog = NextLog(now)
      BY <2>2
    <3>2. log.count # 0 => waiting.nextLog >= log.at + LogEvery
      BY DEF ReportsSpaced
    <3>3. /\ waiting.nextLog \in Nat /\ log.at \in Nat
          /\ since.nextLog >= waiting.nextLog
          /\ since.nextLog >= since.started + WarnAfter
      BY <1>3, <3>1 DEF TypeOK
    <3>4. since.nextLog \in Nat /\ since.started = now
      BY <1>3, <3>1
    <3> HIDE DEF since
    <3>5. QED
      BY <1>1, <3>2, <3>3, <3>4
  <2>3. QED
    BY <2>1, <2>2
<1>6. IF now >= since.nextLog
      THEN /\ waiting' = [since EXCEPT !.nextLog = now + LogEvery]
           /\ log' = [count |-> log.count + 1, at |-> now,
                      elapsed |-> now - since.started]
      ELSE waiting' = since /\ UNCHANGED log
  BY DEF Waited
<1>7. log \in [count : Nat, at : Nat, elapsed : Nat]
  BY DEF TypeOK
<1> HIDE DEF since
<1>8. CASE now >= since.nextLog
  <2>1. /\ waiting'.record = since.record /\ waiting'.started = since.started
        /\ waiting'.nextLog = now + LogEvery
        /\ waiting' \in [record : Nat \X Nat, started : Nat, nextLog : Nat]
    <3> DEFINE next == now + LogEvery
    <3>1. next \in Nat
      BY <1>1
    <3>2. waiting' = [since EXCEPT !.nextLog = next]
      BY <1>6, <1>8
    <3> HIDE DEF next
    <3>3. /\ waiting'.record = since.record /\ waiting'.started = since.started
          /\ waiting'.nextLog = next
          /\ waiting' \in [record : Nat \X Nat, started : Nat, nextLog : Nat]
      BY <1>4, <3>1, <3>2
    <3>4. QED
      BY <3>3 DEF next
  <2>2. /\ log'.count = log.count + 1 /\ log'.at = now
        /\ log'.elapsed = now - since.started
        /\ log' \in [count : Nat, at : Nat, elapsed : Nat]
    <3>1. log' = [count |-> log.count + 1, at |-> now, elapsed |-> now - since.started]
      BY <1>6, <1>8
    <3>2. now - since.started \in Nat /\ log.count + 1 \in Nat
      BY <1>1, <1>4, <1>5, <1>7
    <3> QED BY <1>1, <3>1, <3>2
  <2>3. /\ since.started \in Nat /\ since.nextLog \in Nat
        /\ log.count \in Nat /\ log.at \in Nat
    BY <1>4, <1>7
  <2>4. now + LogEvery >= since.started + WarnAfter /\ now - since.started >= WarnAfter
    BY <1>1, <1>5, <1>8, <2>3
  <2>5. log.count # 0 => now >= log.at + LogEvery
    BY <1>1, <1>5, <1>8, <2>3
  <2>6. /\ waiting'.started <= now
        /\ waiting'.nextLog >= waiting'.started + WarnAfter
        /\ waiting'.nextLog >= log'.at + LogEvery
    BY <1>1, <1>5, <2>1, <2>2, <2>4
  <2>7. log'.elapsed >= WarnAfter /\ (log.count # 0 => log'.at >= log.at + LogEvery)
    BY <2>2, <2>4, <2>5
  <2> QED BY <2>1, <2>2, <2>6, <2>7
<1>9. CASE ~(now >= since.nextLog)
  BY <1>4, <1>5, <1>6, <1>7, <1>9
<1> QED BY <1>8, <1>9

LEMMA EndStep ==
    ASSUME NEW kind \in {"report", "error", "aborted"}, End(kind), OneReference,
           pc # "end"
    PROVE  /\ pc' = "end" /\ answer' = kind /\ timer' = FALSE /\ cleanup' = FALSE
           /\ refs' = 0
  BY DEF End, DeleteTimer, OneReference

LEMMA SuspendStep ==
    ASSUME Suspend, OneReference, pc # "end"
    PROVE  /\ pc' = "wait" /\ timer' = TRUE /\ cleanup' = TRUE /\ answer' = answer
           /\ refs' = 1
  BY DEF Suspend, OneReference, TakeReference

(***************************************************************************)
(* Type correctness of the record that is read.                            *)
(***************************************************************************)
LEMMA ReadStep == ASSUME TypeOK, ReadRecord PROVE TypeOK'
<1> USE StatusAssumption, SourcesAreNumbers
<1> DEFINE snap == snapshots[source]
           i == snap.next + 1
           verdict == down[<<source, i>>]
           row == [peer |-> <<source, i>>, down |-> verdict]
           new == [next |-> i, up |-> snap.up + IF Healthy(verdict) THEN 1 ELSE 0,
                   rows |-> IF Kept(verdict) THEN Append(snap.rows, row)
                            ELSE snap.rows]
<1>1. source \in Sources /\ snap.next \in 0..Sizes[source] /\ snap.next < Sizes[source]
  BY DEF ReadRecord, MoreRecords, TypeOK
<1>2. /\ snap.up \in 0..snap.next /\ snap.rows \in Seq(Rows)
      /\ Len(snap.rows) <= snap.next
  BY <1>1 DEF TypeOK
<1>3. i \in 1..Sizes[source]
  BY <1>1
<1>4. <<source, i>> \in Records
  BY <1>1, <1>3 DEF Records
<1>5. row \in Rows
  BY <1>4 DEF Rows, TypeOK
<1>6. /\ new.next \in 0..Sizes[source] /\ new.up \in 0..new.next
      /\ new.rows \in Seq(Rows) /\ Len(new.rows) <= new.next
  <2>1. /\ Append(snap.rows, row) \in Seq(Rows)
        /\ Len(Append(snap.rows, row)) = Len(snap.rows) + 1
    BY <1>2, <1>5, AppendProperties
  <2>2. snap.up + (IF Healthy(verdict) THEN 1 ELSE 0) \in 0..i
    BY <1>1, <1>2
  <2> HIDE DEF row
  <2>3. /\ new.next = i
        /\ new.up = snap.up + (IF Healthy(verdict) THEN 1 ELSE 0)
        /\ new.rows = IF Kept(verdict) THEN Append(snap.rows, row) ELSE snap.rows
    OBVIOUS
  <2>4. new.rows \in Seq(Rows) /\ Len(new.rows) <= i
    BY <1>1, <1>2, <2>1, <2>3
  <2> QED BY <1>1, <1>3, <2>2, <2>3, <2>4
<1>7. new \in [next : Nat, up : Nat, rows : Seq(Rows)]
  <2>1. new.next \in Nat /\ new.up \in Nat
    BY <1>1, <1>6
  <2> QED BY <1>6, <2>1
<1>8. snapshots' = [snapshots EXCEPT ![source] = new]
  BY DEF ReadRecord
<1>9. remaining' \in 0..Batch
  BY DEF ReadRecord, TypeOK
<1> HIDE DEF new
<1>10. /\ snapshots' \in [Sources -> [next : Nat, up : Nat, rows : Seq(Rows)]]
       /\ \A s \in Sources :
             /\ snapshots'[s].next \in 0..Sizes[s]
             /\ snapshots'[s].up \in 0..snapshots'[s].next
             /\ Len(snapshots'[s].rows) <= snapshots'[s].next
  BY <1>1, <1>6, <1>7, <1>8 DEF TypeOK
<1> QED BY <1>9, <1>10 DEF ReadRecord, TypeOK

(***************************************************************************)
(* Every step preserves the invariant, and satisfies the property of the   *)
(* reports.                                                                *)
(***************************************************************************)
ReportsApartStep ==
    log'.count # log.count =>
        /\ log'.elapsed >= WarnAfter
        /\ log.count # 0 => log'.at >= log.at + LogEvery

LEMMA RequestStep ==
    ASSUME RequestInv, [Next]_vars
    PROVE  RequestInv' /\ ReportsApartStep
<1> USE StatusAssumption, SourcesAreNumbers DEF RequestInv, ReportsApartStep
<1>e. ASSUME NEW kind \in {"report", "error", "aborted"}, End(kind), pc # "end",
             remaining' \in 0..Batch,
             UNCHANGED <<now, down, conn, collection, waiting, log>>
      PROVE  RequestInv' /\ ReportsApartStep
  <2>1. /\ pc' = "end" /\ answer' = kind /\ timer' = FALSE /\ cleanup' = FALSE
        /\ refs' = 0
    BY <1>e, EndStep
  <2>2. TypeOK'
    BY <1>e, <2>1 DEF TypeOK, collection
  <2>3. TimerIffWaiting' /\ OneReference'
    BY <2>1 DEF TimerIffWaiting, OneReference
  <2>4. ReportsSpaced' /\ ReportsApartStep
    BY <1>e DEF ReportsSpaced
  <2> QED BY <2>2, <2>3, <2>4
<1>w. ASSUME NEW contended \in BOOLEAN, WaitFor(contended), pc # "end", MoreRecords
      PROVE  RequestInv' /\ ReportsApartStep
  <2>1. UNCHANGED <<now, down, conn, collection, remaining>>
    BY <1>w DEF WaitFor
  <2>2. /\ pc' = "wait" /\ timer' = TRUE /\ cleanup' = TRUE /\ answer' = answer
        /\ refs' = 1
    BY <1>w, SuspendStep DEF WaitFor
  <2>3. /\ waiting' \in [record : Nat \X Nat, started : Nat, nextLog : Nat]
        /\ log' \in [count : Nat, at : Nat, elapsed : Nat]
        /\ ReportsSpaced' /\ ReportsApartStep
    <3>1. CASE Waited
      BY <1>w, <2>1, <3>1, WaitedStep DEF ReportsSpaced
    <3>2. CASE UNCHANGED <<waiting, log>>
      BY <2>1, <3>2 DEF TypeOK, ReportsSpaced
    <3> QED BY <1>w, <3>1, <3>2 DEF WaitFor
  <2>4. TypeOK'
    BY <2>1, <2>2, <2>3 DEF TypeOK, collection
  <2>5. TimerIffWaiting' /\ OneReference'
    BY <2>2 DEF TimerIffWaiting, OneReference
  <2> QED BY <2>3, <2>4, <2>5
<1>c. ASSUME pc' = "collect", timer' = FALSE, remaining' = Batch, pc # "end",
             UNCHANGED <<now, down, conn, refs, cleanup, collection, waiting, log,
                         answer>>
      PROVE  RequestInv' /\ ReportsApartStep
  <2>1. TypeOK'
    <3>1. remaining' \in 0..Batch
      <4>1. Batch \in 0..Batch
        BY StatusAssumption
      <4> QED BY <1>c, <4>1
    <3>2. timer' \in BOOLEAN /\ pc' \in {"content", "collect", "wait", "end"}
      BY <1>c
    <3>3. UNCHANGED <<now, down, conn, refs, cleanup, flag, source, snapshots,
                      waiting, log, answer>>
      BY <1>c DEF collection
    <3> QED BY <3>1, <3>2, <3>3 DEF TypeOK
  <2>2. TimerIffWaiting' /\ OneReference'
    BY <1>c DEF TimerIffWaiting, OneReference
  <2>3. ReportsSpaced' /\ ReportsApartStep
    BY <1>c DEF ReportsSpaced
  <2> QED BY <2>1, <2>2, <2>3
<1>1. CASE Request
  <2>1. CASE End("error") /\ UNCHANGED remaining
    <3>1. pc # "end" /\ remaining' \in 0..Batch
      BY <1>1, <2>1 DEF Request, TypeOK
    <3> QED BY <1>1, <2>1, <3>1, <1>e DEF Request
  <2>2. CASE pc' = "collect" /\ remaining' = Batch
             /\ UNCHANGED <<refs, timer, cleanup, answer>>
    <3>1. timer' = FALSE
      BY <1>1, <2>2 DEF Request, TypeOK, TimerIffWaiting
    <3> QED BY <1>1, <2>2, <3>1, <1>c DEF Request
  <2> QED BY <1>1, <2>1, <2>2 DEF Request
<1>2. CASE Resume
  <2>1. CASE End("aborted") /\ UNCHANGED remaining
    BY <1>2, <2>1, <1>e DEF Resume, TypeOK
  <2>2. CASE pc' = "collect" /\ timer' = FALSE /\ remaining' = FullBatch
             /\ UNCHANGED <<refs, cleanup, answer>>
    BY <1>2, <2>2, <1>c DEF Resume, FullBatch
  <2> QED BY <1>2, <2>1, <2>2 DEF Resume
<1>3. CASE ReadRecord
  BY <1>3, ReadStep DEF ReadRecord, TimerIffWaiting, OneReference, ReportsSpaced
<1>4. CASE SourceDone
  <2>1. source' \in 1..(Len(Sizes) + 1)
    BY <1>4 DEF SourceDone
  <2>2. TypeOK'
    BY <1>4, <2>1 DEF SourceDone, TypeOK
  <2> QED BY <1>4, <2>2 DEF SourceDone, TimerIffWaiting, OneReference, ReportsSpaced
<1>5. CASE Contended
  BY <1>5, <1>w DEF Contended
<1>6. CASE Exhausted
  BY <1>6, <1>w DEF Exhausted
<1>7. CASE ReadFails
  BY <1>7, <1>e DEF ReadFails, TypeOK
<1>8. CASE WaitFails
  BY <1>8, <1>e DEF WaitFails, TypeOK
<1>9. CASE Output
  BY <1>9, <1>e DEF Output, TypeOK
<1>10. CASE Publish
  BY <1>10
     DEF Publish, TypeOK, TimerIffWaiting, OneReference, ReportsSpaced, collection
<1>11. CASE LoseConnection
  BY <1>11
     DEF LoseConnection, TypeOK, TimerIffWaiting, OneReference, ReportsSpaced,
         collection
<1>12. CASE Cancel
  BY <1>12, <1>e DEF Cancel, TypeOK
<1>13. CASE Tick
  <2>1. now' \in 1..MaxTime /\ now' >= now
    BY <1>13 DEF Tick, TypeOK
  <2>2. TypeOK'
    BY <1>13, <2>1 DEF Tick, TypeOK, collection
  <2>3. TimerIffWaiting' /\ OneReference'
    BY <1>13 DEF Tick, TimerIffWaiting, OneReference
  <2>4. waiting.started \in Nat /\ now \in Nat
    BY DEF TypeOK
  <2>5. ReportsSpaced'
    BY <1>13, <2>1, <2>4 DEF Tick, ReportsSpaced
  <2> QED BY <1>13, <2>2, <2>3, <2>5 DEF Tick
<1>14. CASE UNCHANGED vars
  <2>1. TypeOK'
    BY <1>14 DEF vars, TypeOK, collection
  <2>2. TimerIffWaiting' /\ OneReference' /\ ReportsSpaced'
    BY <1>14 DEF vars, TimerIffWaiting, OneReference, ReportsSpaced
  <2> QED BY <1>14, <2>1, <2>2 DEF vars
<1> QED
  BY <1>1, <1>2, <1>3, <1>4, <1>5, <1>6, <1>7, <1>8, <1>9, <1>10, <1>11, <1>12,
     <1>13, <1>14
     DEF Next, Handler

LEMMA RequestAlways == Spec => []RequestInv
<1>1. RequestInv /\ [Next]_vars => RequestInv'
  BY RequestStep
<1> QED BY InitRequest, <1>1, PTL DEF Spec

----------------------------------------------------------------------------
\* Every variable of a status request keeps its type, and a snapshot has no more
\* rows and no more peers up than it has read (snapshot_step).
THEOREM RequestTypeSafety == Spec => []TypeOK
<1>1. RequestInv => TypeOK
  BY DEF RequestInv
<1> QED BY RequestAlways, <1>1, PTL

\* The timer is set exactly while the request waits, whatever ends it
\* (request_wait, request_resume, request_cleanup).
THEOREM RequestTimerSafety == Spec => []TimerIffWaiting
<1>1. RequestInv => TimerIffWaiting
  BY DEF RequestInv
<1> QED BY RequestAlways, <1>1, PTL

\* The request keeps its reference until it ends and gives it back once
\* (ngx_healthcheck_status_request and every way to finalise it).
THEOREM RequestReferenceSafety == Spec => []HeldUntilEnd
<1>1. RequestInv => HeldUntilEnd
  BY DEF RequestInv, OneReference, HeldUntilEnd
<1> QED BY RequestAlways, <1>1, PTL

\* Reports of a busy record come after WarnAfter and at least LogEvery apart, however
\* the waits for several records follow each other (request_wait).
THEOREM ReportsSafety == Spec => ReportsApart
<1>1. RequestInv /\ [Next]_vars => [ReportsApartStep]_vars
  BY RequestStep
<1> QED BY RequestAlways, <1>1, PTL DEF Spec, ReportsApart, ReportsApartStep
----------------------------------------------------------------------------
(***************************************************************************)
(* What the abstract report computes by a loop over the verdicts: how the  *)
(* loop starts, and what one more verdict adds to it.                      *)
(***************************************************************************)
\* A set of numbers that is not empty has a smallest one.
LEMMA SmallestExists ==
    ASSUME NEW S \in SUBSET Nat, S # {}
    PROVE  \E n \in S : \A m \in S : n <= m
<1>1. PICK n \in S : \A m \in S : ~(<<m, n>> \in OpToRel(<, Nat))
  BY NatLessThanWellFounded, WFMin, Zenon
<1>2. ASSUME NEW m \in S PROVE n <= m
  <2>1. n \in Nat /\ m \in Nat
    BY <1>1
  <2>2. <<m, n>> \in Nat \X Nat /\ <<m, n>>[1] = m /\ <<m, n>>[2] = n
    BY <2>1
  <2>3. ~(<<m, n>> \in OpToRel(<, Nat))
    BY <1>1, Zenon
  <2>4. ~(m < n)
    BY <2>2, <2>3, Zenon DEF OpToRel
  <2>5. QED
    BY <2>1, <2>4
<1>3. QED
  BY <1>1, <1>2

\* What holds for 0 and for the successor of every number it holds for, up to a
\* bound, holds for all.  Held is the set of the numbers it holds for.
LEMMA Induction ==
    ASSUME NEW N \in Nat, NEW Held,
           0 \in Held,
           \A n \in 1..N : n - 1 \in Held => n \in Held
    PROVE  \A n \in 0..N : n \in Held
<1> DEFINE Bad == {n \in 0..N : n \notin Held}
<1>1. Bad = {}
  <2> SUFFICES ASSUME Bad # {} PROVE FALSE
    OBVIOUS
  <2>1. Bad \in SUBSET Nat
    OBVIOUS
  <2>2. PICK n \in Bad : \A m \in Bad : n <= m
    BY <2>1, SmallestExists
  <2>3. n \in 1..N /\ n \notin Held
    OBVIOUS
  <2>4. n - 1 \in 0..N /\ ~(n <= n - 1)
    BY <2>3
  <2>5. n - 1 \in Held
    BY <2>2, <2>4
  <2>6. QED
    BY <2>3, <2>5
<1>2. QED
  BY <1>1

\* A loop: g is what N steps make of a first value, step n by the function Turn[n].
Loop(g, N, S, first, Turn) ==
    /\ g \in [0..N -> S]
    /\ g[0] = first
    /\ \A n \in 1..N : g[n] = Turn[n][g[n - 1]]

\* Such a loop exists.
LEMMA Iteration ==
    ASSUME NEW N \in Nat, NEW S, NEW first \in S, NEW Turn \in [1..N -> [S -> S]]
    PROVE  \E g : Loop(g, N, S, first, Turn)
<1> DEFINE Upto(n) == \E g \in [0..n -> S] : /\ g[0] = first
                                            /\ \A k \in 1..n : g[k] = Turn[k][g[k - 1]]
           Held == {n \in 0..N : Upto(n)}
<1>1. Upto(0)
  <2> DEFINE g == [k \in 0..0 |-> first]
  <2>1. g \in [0..0 -> S] /\ g[0] = first
    OBVIOUS
  <2>2. 1..0 = {}
    OBVIOUS
  <2> HIDE DEF g
  <2>3. QED
    BY <2>1, <2>2
<1>2. ASSUME NEW n \in 1..N, Upto(n - 1) PROVE Upto(n)
  <2>1. PICK g \in [0..(n - 1) -> S] : /\ g[0] = first
                                      /\ \A k \in 1..(n - 1) : g[k] = Turn[k][g[k - 1]]
    BY <1>2
  <2>2. PICK v \in S : v = Turn[n][g[n - 1]]
    BY <2>1
  <2> DEFINE h == [k \in 0..n |-> IF k = n THEN v ELSE g[k]]
  <2>3. h \in [0..n -> S]
    BY <2>1
  <2>4. h[n] = v /\ \A k \in 0..(n - 1) : h[k] = g[k]
    OBVIOUS
  <2> HIDE DEF h
  <2>5. h[0] = first
    BY <2>1, <2>4
  <2>6. ASSUME NEW k \in 1..n PROVE h[k] = Turn[k][h[k - 1]]
    <3>1. k - 1 \in 0..(n - 1) /\ h[k - 1] = g[k - 1]
      BY <2>4
    <3>2. CASE k = n
      BY <2>2, <2>4, <3>1, <3>2
    <3>3. CASE k # n
      BY <2>1, <2>4, <3>1, <3>3
    <3>4. QED
      BY <3>2, <3>3
  <2>7. QED
    BY <2>3, <2>5, <2>6
<1> HIDE DEF Upto
<1>3. \A n \in 1..N : n - 1 \in Held => n \in Held
  BY <1>2
<1>4. 0 \in Held
  BY <1>1
<1> HIDE DEF Held
<1>5. N \in Held
  <2>1. \A n \in 0..N : n \in Held
    BY <1>3, <1>4, Induction, Zenon
  <2>2. QED
    BY <2>1
<1>6. QED
  BY <1>5 DEF Held, Upto, Loop
\* One row of an answer about source s.
AnyRow(s) == [peer : {s} \X Nat, down : BOOLEAN]

RowOf(s, n, verdict) == [peer |-> <<s, n>>, down |-> verdict]

\* The loop that picks the rows of source s among the verdicts v.
RowLoop(g, f, s, v) ==
    /\ g \in [0..Len(v) -> Seq(AnyRow(s))]
    /\ g[0] = <<>>
    /\ \A n \in 1..Len(v) :
          g[n] = IF Report!Selected(f, v[n])
                 THEN Append(g[n - 1], RowOf(s, n, v[n])) ELSE g[n - 1]
    /\ Report!Chosen(f, s, v) = g[Len(v)]

\* The rows of an answer are those of the loop.
LEMMA ChosenLoop ==
    ASSUME NEW f, NEW s, NEW v \in Seq(BOOLEAN)
    PROVE  \E g : RowLoop(g, f, s, v)
<1> DEFINE T == Seq(AnyRow(s))
           N == Len(v)
           Turn == [n \in 1..N |-> [t \in T |->
                       IF Report!Selected(f, v[n]) THEN Append(t, RowOf(s, n, v[n])) ELSE t]]
           Body(g, n) == IF n = 0 THEN <<>>
                         ELSE IF Report!Selected(f, v[n])
                              THEN Append(g[n - 1], RowOf(s, n, v[n])) ELSE g[n - 1]
           P(g) == g = [n \in 0..N |-> Body(g, n)]
           F == CHOOSE g : P(g)
<1>1. N \in Nat /\ \A n \in 1..N : v[n] \in BOOLEAN
  OBVIOUS
<1>2. ASSUME NEW n \in 1..N, NEW t \in T
      PROVE  Append(t, RowOf(s, n, v[n])) \in T
  <2>1. RowOf(s, n, v[n]) \in AnyRow(s)
    BY <1>1 DEF RowOf, AnyRow
  <2>2. QED
    BY <2>1, AppendProperties
<1>3. Turn \in [1..N -> [T -> T]]
  BY <1>2
<1>4. <<>> \in T
  OBVIOUS
<1>5. \A n \in 1..N, t \in T :
         Turn[n][t] = IF Report!Selected(f, v[n]) THEN Append(t, RowOf(s, n, v[n])) ELSE t
  OBVIOUS
<1>6. Report!Chosen(f, s, v) = F[N]
  BY Zenon DEF Report!Chosen, RowOf
<1>b. \A g : /\ Body(g, 0) = <<>>
             /\ \A n \in 1..N :
                   Body(g, n) = IF Report!Selected(f, v[n])
                                THEN Append(g[n - 1], RowOf(s, n, v[n])) ELSE g[n - 1]
  <2>1. \A n \in 1..N : n # 0
    OBVIOUS
  <2>2. QED
    BY <2>1, Zenon
<1> HIDE DEF Turn, T, N, Body
<1>7. PICK g : Loop(g, N, T, <<>>, Turn)
  BY <1>1, <1>3, <1>4, Iteration, Zenon
<1>8. /\ g \in [0..N -> T] /\ g[0] = <<>>
      /\ \A n \in 1..N : g[n] = Turn[n][g[n - 1]] /\ g[n - 1] \in T
  BY <1>1, <1>7 DEF Loop
<1>9. \A n \in 1..N :
         g[n] = IF Report!Selected(f, v[n]) THEN Append(g[n - 1], RowOf(s, n, v[n])) ELSE g[n - 1]
  BY <1>5, <1>8
<1>10. P(g)
  <2>1. \A n \in 0..N : g[n] = Body(g, n)
    <3>1. \A n \in 0..N : n = 0 \/ n \in 1..N
      BY <1>1
    <3>2. \A n \in 1..N : g[n] = Body(g, n)
      BY <1>9, <1>b, Zenon
    <3>3. QED
      BY <1>8, <1>b, <3>1, <3>2, Zenon
  <2>2. QED
    BY <1>8, <2>1
<1> HIDE DEF P
<1>11. P(F)
  BY <1>10, Zenon
<1> HIDE DEF F
<1>12. \A h : P(h) => h = g
  <2> SUFFICES ASSUME NEW h, P(h) PROVE h = g
    OBVIOUS
  <2> DEFINE Held == {n \in 0..N : h[n] = g[n]}
  <2>1. DOMAIN h = 0..N /\ h = [n \in 0..N |-> h[n]]
    BY DEF P
  <2>2. h[0] = <<>>
    <3>1. h[0] = Body(h, 0)
      BY <1>1 DEF P
    <3>2. QED
      BY <1>b, <3>1, Zenon
  <2>3. \A n \in 1..N :
         h[n] = IF Report!Selected(f, v[n]) THEN Append(h[n - 1], RowOf(s, n, v[n])) ELSE h[n - 1]
    <3>1. \A n \in 1..N : h[n] = Body(h, n)
      BY <1>1 DEF P
    <3>2. QED
      BY <1>b, <3>1, Zenon
  <2>4. 0 \in Held
    BY <1>1, <1>8, <2>2
  <2>5. \A n \in 1..N : n - 1 \in Held => n \in Held
    BY <1>1, <1>9, <2>3
  <2> HIDE DEF Held
  <2>6. \A n \in 0..N : n \in Held
    BY <1>1, <2>4, <2>5, Induction
  <2>7. QED
    BY <1>8, <2>1, <2>6 DEF Held
<1>13. F = g
  BY <1>11, <1>12
<1>14. QED
  BY <1>6, <1>8, <1>9, <1>13 DEF N, T, RowLoop

LEMMA ChosenNone == ASSUME NEW f, NEW s PROVE Report!Chosen(f, s, <<>>) = <<>>
<1>1. <<>> \in Seq(BOOLEAN) /\ Len(<<>>) = 0
  OBVIOUS
<1>2. PICK g : RowLoop(g, f, s, <<>>)
  BY <1>1, ChosenLoop, Zenon
<1> QED BY <1>1, <1>2, Zenon DEF RowLoop

\* One more verdict is one more turn of the loop.
LEMMA ChosenAppend ==
    ASSUME NEW f, NEW s, NEW v \in Seq(BOOLEAN), NEW x \in BOOLEAN
    PROVE  Report!Chosen(f, s, Append(v, x)) =
               IF Report!Selected(f, x)
               THEN Append(Report!Chosen(f, s, v), RowOf(s, Len(v) + 1, x))
               ELSE Report!Chosen(f, s, v)
<1> DEFINE w == Append(v, x)
           N == Len(v)
           Rowed(n, b) == RowOf(s, n, b)
           C == Report!Chosen(f, s, v)
           D == Report!Chosen(f, s, w)
<1>1. /\ w \in Seq(BOOLEAN) /\ N \in Nat /\ Len(w) = N + 1 /\ w[N + 1] = x
      /\ \A n \in 1..N : w[n] = v[n]
  BY AppendProperties
<1>2. PICK g : RowLoop(g, f, s, v)
  BY ChosenLoop, Zenon
<1>3. PICK h : RowLoop(h, f, s, w)
  BY <1>1, ChosenLoop, Zenon
<1>g. /\ g[0] = <<>> /\ C = g[N]
      /\ \A n \in 1..N :
            g[n] = IF Report!Selected(f, v[n])
                   THEN Append(g[n - 1], Rowed(n, v[n])) ELSE g[n - 1]
  BY <1>2, Zenon DEF RowLoop
<1>h. /\ h[0] = <<>> /\ D = h[Len(w)]
      /\ \A n \in 1..Len(w) :
            h[n] = IF Report!Selected(f, w[n])
                   THEN Append(h[n - 1], Rowed(n, w[n])) ELSE h[n - 1]
  BY <1>3, Zenon DEF RowLoop
<1> HIDE DEF Rowed, C, D, w
<1> DEFINE Held == {n \in 0..N : h[n] = g[n]}
<1>4. 0 \in Held
  BY <1>1, <1>g, <1>h
<1>5. ASSUME NEW n \in 1..N, n - 1 \in Held PROVE n \in Held
  <2>1. n \in 1..Len(w) /\ h[n - 1] = g[n - 1] /\ w[n] = v[n]
    BY <1>1, <1>5
  <2>2. h[n] = g[n]
    BY <1>g, <1>h, <2>1, Zenon
  <2>3. QED
    BY <1>1, <2>2
<1> HIDE DEF Held
<1>6. \A n \in 0..N : n \in Held
  BY <1>1, <1>4, <1>5, Induction
<1>7. h[N] = g[N] /\ N + 1 \in 1..Len(w) /\ (N + 1) - 1 = N
  BY <1>1, <1>6 DEF Held
<1>8. D = IF Report!Selected(f, x) THEN Append(h[N], Rowed(N + 1, x)) ELSE h[N]
  BY <1>1, <1>h, <1>7, Zenon
<1>9. QED
  BY <1>g, <1>7, <1>8 DEF C, D, w, Rowed

\* The instance counts as the module does.
LEMMA SameCount == \A S : Report!Cardinality(S) = Cardinality(S)
  BY Zenon DEF Cardinality, Report!Cardinality

LEMMA UpNone == Report!UpCount(<<>>) = 0
<1>1. {n \in DOMAIN <<>> : ~(<<>>)[n]} = {}
  OBVIOUS
<1>2. Cardinality({}) = 0
  BY FS_EmptySet
<1>3. QED
  BY <1>1, <1>2, SameCount, Zenon DEF Report!UpCount

LEMMA UpAppend ==
    ASSUME NEW v \in Seq(BOOLEAN), NEW x \in BOOLEAN
    PROVE  /\ Report!UpCount(v) \in Nat
           /\ Report!UpCount(Append(v, x)) = Report!UpCount(v) + IF x THEN 0 ELSE 1
<1> DEFINE w == Append(v, x)
           N == Len(v)
           U == {n \in DOMAIN v : ~v[n]}
           V == {n \in DOMAIN w : ~w[n]}
<1>1. /\ w \in Seq(BOOLEAN) /\ N \in Nat /\ Len(w) = N + 1 /\ w[N + 1] = x
      /\ \A n \in 1..N : w[n] = v[n]
      /\ DOMAIN v = 1..N /\ DOMAIN w = 1..(N + 1)
  BY AppendProperties
<1>2. IsFiniteSet(U) /\ Cardinality(U) \in Nat
  <2>1. U \subseteq 1..N /\ IsFiniteSet(1..N)
    BY <1>1, FS_Interval
  <2>2. IsFiniteSet(U)
    BY <2>1, FS_Subset
  <2>3. QED
    BY <2>2, FS_CardinalityType
<1>3. V = IF x THEN U ELSE U \cup {N + 1}
  <2> HIDE DEF w
  <2>1. \A n : n \in V <=> n \in U \/ (n = N + 1 /\ ~x)
    BY <1>1
  <2>2. QED
    BY <2>1
<1>4. N + 1 \notin U
  BY <1>1
<1> HIDE DEF U, V
<1>5. Cardinality(V) = Cardinality(U) + IF x THEN 0 ELSE 1
  <2>1. CASE x
    BY <1>2, <1>3, <2>1
  <2>2. CASE ~x
    <3>1. V = U \cup {N + 1}
      BY <1>3, <2>2
    <3>2. Cardinality(U \cup {N + 1}) = Cardinality(U) + 1
      BY <1>2, <1>4, FS_AddElement
    <3>3. QED
      BY <3>1, <3>2, <2>2
  <2>3. QED
    BY <2>1, <2>2
<1>6. Report!UpCount(v) = Cardinality(U) /\ Report!UpCount(w) = Cardinality(V)
  BY SameCount, Zenon DEF U, V, Report!UpCount
<1>7. QED
  BY <1>2, <1>5, <1>6
----------------------------------------------------------------------------
(***************************************************************************)
(* The inductive invariant of the collection.  Of every source the rows    *)
(* and the count are those of what was read, in that order; a source that  *)
(* the request has left was read to its end; and it answers only after the *)
(* last source.                                                            *)
(***************************************************************************)
RowsRead ==
    \A s \in Sources : \A k \in DOMAIN snapshots[s].rows :
        snapshots[s].rows[k].peer \in {s} \X (1..snapshots[s].next)

SnapshotsFollow ==
    \A s \in Sources :
        /\ snapshots[s].rows = Report!Chosen(flag, s, ReadSoFar[s])
        /\ snapshots[s].up = Report!UpCount(ReadSoFar[s])

InOrder == \A s \in Sources : s < source => snapshots[s].next = Sizes[s]

AnswerAtEnd ==
    /\ answer = "none" <=> pc # "end"
    /\ answer = "report" => source \notin Sources

CollectInv == RowsRead /\ SnapshotsFollow /\ InOrder /\ AnswerAtEnd

\* What a list of rows says about a record.
ReadIn(f, rows, r) ==
    IF \E k \in DOMAIN rows : rows[k].peer = r
    THEN \E k \in DOMAIN rows : rows[k].peer = r /\ rows[k].down
    ELSE f = "up"

LEMMA ReadInAppend ==
    ASSUME NEW f, NEW T, NEW rows \in Seq(T), NEW row \in T, NEW r
    PROVE  /\ row.peer # r => (ReadIn(f, Append(rows, row), r) <=> ReadIn(f, rows, r))
           /\ row.peer = r => (ReadIn(f, Append(rows, row), r) <=>
                                  row.down \/ \E k \in DOMAIN rows :
                                                 rows[k].peer = r /\ rows[k].down)
<1> DEFINE more == Append(rows, row)
           n == Len(rows)
<1>1. /\ n \in Nat /\ DOMAIN rows = 1..n /\ DOMAIN more = 1..(n + 1)
      /\ more[n + 1] = row /\ \A k \in 1..n : more[k] = rows[k]
  BY AppendProperties
<1>2. \A k : k \in 1..(n + 1) <=> k \in 1..n \/ k = n + 1
  BY <1>1
<1> HIDE DEF more, n
<1>3. row.peer # r => (ReadIn(f, more, r) <=> ReadIn(f, rows, r))
  BY <1>1, <1>2, Zenon DEF ReadIn
<1>4. row.peer = r => (ReadIn(f, more, r) <=>
                          row.down \/ \E k \in DOMAIN rows : rows[k].peer = r /\ rows[k].down)
  BY <1>1, <1>2, Zenon DEF ReadIn
<1> QED BY <1>3, <1>4 DEF more

LEMMA ReadInLast ==
    ASSUME NEW f, NEW T, NEW rows \in Seq(T), NEW row \in T, NEW r, row.peer = r,
           \A k \in DOMAIN rows : rows[k].peer # r
    PROVE  ReadIn(f, Append(rows, row), r) <=> row.down
  BY ReadInAppend

LEMMA SameTruth == \A a, b \in BOOLEAN : (a <=> b) => a = b
  OBVIOUS

LEMMA WasReadIn == \A s, i : WasRead(<<s, i>>) <=> ReadIn(flag, snapshots[s].rows, <<s, i>>)
<1>1. ASSUME NEW s, NEW i
      PROVE  WasRead(<<s, i>>) <=> ReadIn(flag, snapshots[s].rows, <<s, i>>)
  <2>1. <<s, i>>[1] = s
    OBVIOUS
  <2> QED BY <2>1, Zenon DEF WasRead, ReadIn
<1> QED BY <1>1

LEMMA ReadType ==
    ASSUME TypeOK, NEW s \in Sources
    PROVE  /\ ReadSoFar[s] \in Seq(BOOLEAN)
           /\ Len(ReadSoFar[s]) = snapshots[s].next /\ snapshots[s].next \in Nat
<1> DEFINE n == snapshots[s].next
           v == [i \in 1..n |-> WasRead(<<s, i>>)]
<1>1. n \in Nat
  BY DEF TypeOK
<1>2. \A i : WasRead(<<s, i>>) \in BOOLEAN
  BY DEF WasRead
<1>3. v \in Seq(BOOLEAN) /\ Len(v) = n
  <2>1. v \in [1..n -> BOOLEAN]
    BY <1>2, Zenon
  <2> HIDE DEF v
  <2> QED BY <1>1, <2>1
<1>4. ReadSoFar[s] = v
  BY DEF ReadSoFar
<1> QED BY <1>1, <1>3, <1>4

LEMMA SameSources ==
    /\ Report!Sources = Sources /\ Report!Peers = Records
    /\ \A f, v : Report!Selected(f, v) <=> f = "all" \/ (f = "down" /\ v) \/ (f = "up" /\ ~v)
  BY DEF Report!Sources, Sources, Report!Peers, Records, Report!Selected

\* One record is read: what was read of its source grows by the record's verdict.
LEMMA ReadEffect ==
    ASSUME TypeOK, CollectInv, ReadRecord
    PROVE  /\ source \in Sources /\ snapshots[source].next < Sizes[source]
           /\ ReadSoFar' = [ReadSoFar EXCEPT ![source] =
                               Append(@, down[<<source, Len(@) + 1>>])]
           /\ RowsRead' /\ SnapshotsFollow'
<1> USE StatusAssumption, SourcesAreNumbers
<1>0. source \in Sources /\ snapshots[source].next \in Nat
      /\ snapshots[source].next < Sizes[source]
  BY DEF ReadRecord, MoreRecords, TypeOK
<1>p. PICK s0 \in Sources, n \in Nat : s0 = source /\ n = snapshots[s0].next
  BY <1>0
<1> DEFINE snap == snapshots[s0]
           verdict == down[<<s0, n + 1>>]
           row == RowOf(s0, n + 1, verdict)
           rows == IF Kept(verdict) THEN Append(snap.rows, row) ELSE snap.rows
           up == snap.up + IF verdict THEN 0 ELSE 1
           new == [next |-> n + 1, up |-> up, rows |-> rows]
<1>1. n < Sizes[s0]
  BY <1>0, <1>p
<1>2. <<s0, n + 1>> \in Records /\ verdict \in BOOLEAN
  <2>1. <<s0, n + 1>> \in Records
    BY <1>1 DEF Records
  <2> QED BY <2>1 DEF TypeOK
<1>3. snap.up \in Nat /\ snap.rows \in Seq(Rows)
  BY <1>1 DEF TypeOK
<1>4. row \in Rows /\ row.peer = <<s0, n + 1>> /\ row.down = verdict
  BY <1>2 DEF Rows, RowOf
<1>5. snapshots' = [snapshots EXCEPT ![s0] = new]
  <2>1. up = snap.up + IF Healthy(verdict) THEN 1 ELSE 0
    BY <1>2 DEF Healthy
  <2> QED BY <1>p, <2>1, Zenon DEF ReadRecord, RowOf
<1>6. /\ snapshots'[s0].next = n + 1 /\ snapshots'[s0].up = up
      /\ snapshots'[s0].rows = rows
      /\ \A s \in Sources : s # s0 => snapshots'[s] = snapshots[s]
  <2> HIDE DEF up, rows
  <2>1. new.next = n + 1 /\ new.up = up /\ new.rows = rows
    OBVIOUS
  <2> HIDE DEF new
  <2> QED BY <1>1, <1>5, <2>1 DEF TypeOK
<1>7. UNCHANGED <<flag, source, down>>
  BY DEF ReadRecord
<1>8. flag \in Filters /\ (Kept(verdict) <=> Report!Selected(flag, verdict))
  <2>1. flag \in Filters
    BY DEF TypeOK
  <2> QED BY <1>2, <2>1, SameSources DEF Kept, Filters
<1>9. \A k \in DOMAIN snap.rows : snap.rows[k].peer \in {s0} \X (1..n)
  BY <1>p DEF CollectInv, RowsRead
<1>r. rows = IF Kept(verdict) THEN Append(snap.rows, row) ELSE snap.rows
  OBVIOUS
<1>s. snap = snapshots[s0] /\ n = snap.next
  BY <1>p
<1> HIDE DEF row, verdict, up, rows, snap
<1>10. \A s, i : s \in Sources => (WasRead(<<s, i>>)' <=> ReadIn(flag, snapshots'[s].rows, <<s, i>>))
  <2>1. (\A s, i : WasRead(<<s, i>>) <=> ReadIn(flag, snapshots[s].rows, <<s, i>>))'
    BY WasReadIn, PTL
  <2> QED BY <1>7, <2>1, Zenon DEF ReadIn
<1>11. ASSUME NEW s \in Sources, NEW i \in 1..snapshots[s].next
       PROVE  WasRead(<<s, i>>)' <=> WasRead(<<s, i>>)
  <2>1. CASE s # s0
    BY <1>6, <1>10, <2>1, WasReadIn, Zenon
  <2>2. CASE s = s0 /\ ~Kept(verdict)
    BY <1>6, <1>10, <1>r, <1>s, <2>2, WasReadIn, Zenon
  <2>3. CASE s = s0 /\ Kept(verdict)
    <3>1. i # n + 1
      BY <1>p, <2>3
    <3>2. row.peer # <<s, i>>
      BY <1>4, <3>1
    <3>3. ReadIn(flag, Append(snap.rows, row), <<s, i>>) <=> ReadIn(flag, snap.rows, <<s, i>>)
      BY <1>3, <1>4, <3>2, ReadInAppend, Zenon
    <3> QED BY <1>6, <1>10, <1>r, <1>s, <2>3, <3>3, WasReadIn, Zenon
  <2> QED BY <2>1, <2>2, <2>3
<1>12. WasRead(<<s0, n + 1>>)' <=> verdict
  <2>1. \A k \in DOMAIN snap.rows : snap.rows[k].peer # <<s0, n + 1>>
    <3>1. <<s0, n + 1>> \notin {s0} \X (1..n)
      BY <1>1
    <3> QED BY <1>9, <3>1, Zenon
  <2>2. CASE Kept(verdict)
    <3>1. ReadIn(flag, Append(snap.rows, row), <<s0, n + 1>>) <=> row.down
      <4> DEFINE r == <<s0, n + 1>>
      <4>1. /\ snap.rows \in Seq(Rows) /\ row \in Rows /\ row.peer = r
            /\ \A k \in DOMAIN snap.rows : snap.rows[k].peer # r
        BY <1>3, <1>4, <2>1
      <4> HIDE DEF r
      <4>2. ReadIn(flag, Append(snap.rows, row), r) <=> row.down
        BY <4>1, ReadInLast, Zenon
      <4> QED BY <4>2 DEF r
    <3> QED BY <1>4, <1>6, <1>10, <1>r, <2>2, <3>1, Zenon
  <2>3. CASE ~Kept(verdict)
    <3>1. WasRead(<<s0, n + 1>>)' <=> ReadIn(flag, snap.rows, <<s0, n + 1>>)
      BY <1>6, <1>10, <1>r, <2>3, Zenon
    <3>2. ReadIn(flag, snap.rows, <<s0, n + 1>>) <=> flag = "up"
      BY <2>1, Zenon DEF ReadIn
    <3>3. flag = "up" <=> verdict
      BY <1>2, <1>8, <2>3 DEF Kept, Filters
    <3> QED BY <3>1, <3>2, <3>3
  <2> QED BY <2>2, <2>3
<1>13. /\ ReadSoFar[s0] \in Seq(BOOLEAN) /\ Len(ReadSoFar[s0]) = n
       /\ ReadSoFar'[s0] = Append(ReadSoFar[s0], verdict)
       /\ \A s \in Sources : s # s0 => ReadSoFar'[s] = ReadSoFar[s]
  <2>1. /\ ReadSoFar[s0] \in Seq(BOOLEAN) /\ Len(ReadSoFar[s0]) = n
        /\ ReadSoFar[s0] = [i \in 1..n |-> WasRead(<<s0, i>>)]
    BY <1>p, ReadType DEF ReadSoFar
  <2>2. ReadSoFar'[s0] = [i \in 1..(n + 1) |-> WasRead(<<s0, i>>)']
    BY <1>1, <1>6 DEF ReadSoFar
  <2>3. \A s \in Sources : s # s0 => ReadSoFar'[s] = ReadSoFar[s]
    <3> SUFFICES ASSUME NEW s \in Sources, s # s0 PROVE ReadSoFar'[s] = ReadSoFar[s]
      OBVIOUS
    <3>1. /\ ReadSoFar'[s] = [i \in 1..snapshots'[s].next |-> WasRead(<<s, i>>)']
          /\ ReadSoFar[s] = [i \in 1..snapshots[s].next |-> WasRead(<<s, i>>)]
      BY DEF ReadSoFar
    <3>2. snapshots'[s] = snapshots[s]
      BY <1>6
    <3>3. \A i : WasRead(<<s, i>>) \in BOOLEAN /\ WasRead(<<s, i>>)' \in BOOLEAN
      BY Zenon DEF WasRead
    <3>4. \A i \in 1..snapshots[s].next : WasRead(<<s, i>>)' = WasRead(<<s, i>>)
      BY <1>11, <3>3, SameTruth, Zenon
    <3> QED BY <3>1, <3>2, <3>4, Zenon
  <2>4. ReadSoFar'[s0] = Append(ReadSoFar[s0], verdict)
    <3>1. \A i \in 1..n : WasRead(<<s0, i>>)' <=> WasRead(<<s0, i>>)
      BY <1>p, <1>11, Zenon
    <3> DEFINE f == [i \in 1..n |-> WasRead(<<s0, i>>)]
               g == [i \in 1..(n + 1) |-> WasRead(<<s0, i>>)']
    <3>2. f \in [1..n -> BOOLEAN] /\ g \in [1..(n + 1) -> BOOLEAN]
      <4>1. \A i : WasRead(<<s0, i>>) \in BOOLEAN /\ WasRead(<<s0, i>>)' \in BOOLEAN
        BY Zenon DEF WasRead
      <4> QED BY <4>1, Zenon
    <3>b. \A i : WasRead(<<s0, i>>) \in BOOLEAN /\ WasRead(<<s0, i>>)' \in BOOLEAN
      BY Zenon DEF WasRead
    <3>3. \A i \in 1..n : i \in 1..(n + 1)
      OBVIOUS
    <3>4. \A i \in 1..n : f[i] = g[i]
      BY <3>1, <3>3, <3>b, SameTruth, Zenon
    <3>5. n + 1 \in 1..(n + 1)
      OBVIOUS
    <3>6. g[n + 1] = verdict
      BY <1>2, <1>12, <3>5, <3>b, SameTruth, Zenon
    <3> HIDE DEF f, g
    <3>7. f \in Seq(BOOLEAN) /\ Len(f) = n
      BY <3>2
    <3>8. g = Append(f, verdict)
      BY <3>2, <3>4, <3>6, <3>7, AppendProperties
    <3> QED BY <2>1, <2>2, <3>8 DEF f, g
  <2> QED BY <2>1, <2>3, <2>4
<1>14. ReadSoFar' = [ReadSoFar EXCEPT ![source] = Append(@, down[<<source, Len(@) + 1>>])]
  <2>1. ReadSoFar = [s \in Sources |-> ReadSoFar[s]] /\ ReadSoFar' = [s \in Sources |-> ReadSoFar'[s]]
    BY DEF ReadSoFar
  <2>2. Append(ReadSoFar[s0], down[<<s0, Len(ReadSoFar[s0]) + 1>>]) = ReadSoFar'[s0]
    BY <1>13 DEF verdict
  <2> QED BY <1>p, <1>13, <2>1, <2>2
<1>15. RowsRead'
  <2> SUFFICES ASSUME NEW s \in Sources, NEW k \in DOMAIN snapshots'[s].rows
               PROVE  snapshots'[s].rows[k].peer \in {s} \X (1..snapshots'[s].next)
    BY DEF RowsRead
  <2>1. CASE s # s0
    BY <1>6, <2>1 DEF CollectInv, RowsRead
  <2>2. CASE s = s0
    <3>1. snap.rows \in Seq(Rows) /\ row \in Rows
      BY <1>3, <1>4
    <3>2. \A j \in DOMAIN rows : rows[j] = row \/ (j \in DOMAIN snap.rows /\ rows[j] = snap.rows[j])
      BY <1>r, <3>1, AppendProperties
    <3>3. snapshots'[s].rows = rows /\ snapshots'[s].next = n + 1
      BY <1>6, <2>2
    <3>4. rows[k].peer \in {s0} \X (1..n) \/ rows[k].peer = <<s0, n + 1>>
      BY <1>4, <1>9, <3>2, <3>3
    <3>5. {s0} \X (1..n) \subseteq {s0} \X (1..(n + 1)) /\ <<s0, n + 1>> \in {s0} \X (1..(n + 1))
      OBVIOUS
    <3> QED BY <2>2, <3>3, <3>4, <3>5, Zenon
  <2> QED BY <2>1, <2>2
<1>16. SnapshotsFollow'
  <2> SUFFICES ASSUME NEW s \in Sources
               PROVE  /\ snapshots'[s].rows = Report!Chosen(flag, s, ReadSoFar'[s])
                      /\ snapshots'[s].up = Report!UpCount(ReadSoFar'[s])
    BY <1>7, Zenon DEF SnapshotsFollow
  <2>1. CASE s # s0
    BY <1>6, <1>13, <2>1, Zenon DEF CollectInv, SnapshotsFollow
  <2>2. CASE s = s0
    <3> DEFINE v == ReadSoFar[s0]
               C == Report!Chosen(flag, s0, v)
               U == Report!UpCount(v)
    <3>1. snap.rows = C /\ snap.up = U
      BY <1>s, Zenon DEF CollectInv, SnapshotsFollow
    <3>2. Report!Chosen(flag, s0, Append(v, verdict)) =
             IF Report!Selected(flag, verdict) THEN Append(C, row) ELSE C
      BY <1>2, <1>13, ChosenAppend DEF row
    <3>3. Report!UpCount(Append(v, verdict)) = U + IF verdict THEN 0 ELSE 1
      BY <1>2, <1>13, UpAppend
    <3> HIDE DEF C, U
    <3>4. rows = Report!Chosen(flag, s0, Append(v, verdict))
      BY <1>8, <1>r, <3>1, <3>2
    <3>5. up = Report!UpCount(Append(v, verdict))
      BY <3>1, <3>3 DEF up
    <3> QED BY <1>6, <1>13, <2>2, <3>4, <3>5, Zenon
  <2> QED BY <2>1, <2>2
<1> QED BY <1>0, <1>14, <1>15, <1>16

\* The snapshots determine what was read and what is shown.
LEMMA SameReport ==
    /\ UNCHANGED <<flag, snapshots>> => UNCHANGED ReadSoFar
    /\ answer' # "report" => Shown' = Report!Nothing
    /\ answer # "report" => Shown = Report!Nothing
    /\ UNCHANGED <<snapshots, answer>> => UNCHANGED Shown
    /\ UNCHANGED answer => UNCHANGED Outcome
<1>1. UNCHANGED <<flag, snapshots>> => UNCHANGED ReadSoFar
  BY DEF ReadSoFar, WasRead
<1>2. answer' # "report" => Shown' = Report!Nothing
  BY SameSources DEF Shown, Report!Nothing
<1>3. answer # "report" => Shown = Report!Nothing
  BY SameSources DEF Shown, Report!Nothing
<1>4. UNCHANGED <<snapshots, answer>> => UNCHANGED Shown
  BY DEF Shown
<1>5. UNCHANGED answer => UNCHANGED Outcome
  BY DEF Outcome
<1> QED BY <1>1, <1>2, <1>3, <1>4, <1>5

LEMMA InitCollect == ASSUME Init PROVE CollectInv /\ Report!RInit
<1>1. \A s \in Sources : snapshots[s] = NoSnapshot
  BY DEF Init
<1>2. \A s \in Sources : snapshots[s].next = 0 /\ snapshots[s].up = 0 /\ snapshots[s].rows = <<>>
  BY <1>1 DEF NoSnapshot
<1>3. ReadSoFar = [s \in Sources |-> <<>>]
  <2>1. ASSUME NEW s \in Sources
        PROVE  [i \in 1..snapshots[s].next |-> WasRead(<<s, i>>)] = <<>>
    <3>1. 1..snapshots[s].next = {}
      BY <1>2
    <3> QED BY <3>1
  <2> QED BY <2>1, Zenon DEF ReadSoFar
<1>4. RowsRead
  BY <1>2 DEF RowsRead
<1>5. SnapshotsFollow
  BY <1>2, <1>3, ChosenNone, UpNone DEF SnapshotsFollow
<1>6. InOrder
  BY SourcesAreNumbers DEF InOrder, Init
<1>7. AnswerAtEnd
  BY DEF AnswerAtEnd, Init
<1>8. Shown = Report!Nothing /\ Outcome = "open"
  BY SameReport DEF Init, Outcome
<1> QED BY <1>3, <1>4, <1>5, <1>6, <1>7, <1>8, SameSources DEF CollectInv, Report!RInit, Init

Simulates == [Report!Change \/ Report!See \/ Report!Finish]_(Report!rvars)

LEMMA CollectStep ==
    ASSUME RequestInv, CollectInv, [Next]_vars
    PROVE  CollectInv' /\ Simulates
<1> USE SourcesAreNumbers
<1>t. TypeOK
  BY DEF RequestInv
<1>q. ASSUME UNCHANGED <<down, collection, answer>>, pc' = "end" <=> pc = "end"
      PROVE  CollectInv' /\ Simulates
  <2>1. UNCHANGED <<flag, source, snapshots, answer, ReadSoFar, Outcome, Shown>>
    BY <1>q, SameReport DEF collection
  <2>2. CollectInv'
    BY <1>q, <2>1 DEF CollectInv, RowsRead, SnapshotsFollow, InOrder, AnswerAtEnd
  <2> QED BY <1>q, <2>1, <2>2 DEF Simulates, Report!rvars
<1>e. ASSUME NEW kind \in {"report", "error", "aborted"}, End(kind), pc # "end",
             kind = "report" => source \notin Sources,
             UNCHANGED <<down, collection>>
      PROVE  CollectInv' /\ Simulates
  <2>1. UNCHANGED <<flag, source, snapshots, ReadSoFar>> /\ pc' = "end" /\ answer' = kind
    BY <1>e, SameReport DEF collection, End
  <2>2. answer = "none"
    BY <1>e DEF CollectInv, AnswerAtEnd
  <2>3. CollectInv'
    <3>1. RowsRead' /\ SnapshotsFollow' /\ InOrder'
      BY <2>1 DEF CollectInv, RowsRead, SnapshotsFollow, InOrder
    <3>2. AnswerAtEnd'
      BY <1>e, <2>1 DEF AnswerAtEnd
    <3> QED BY <3>1, <3>2 DEF CollectInv
  <2>4. Outcome = "open" /\ Shown = Report!Nothing
    BY <2>2, SameReport DEF Outcome
  <2>5. CASE kind = "report"
    <3>1. \A s \in Sources : Report!AllSeen(s)
      <4>1. source = Len(Sizes) + 1
        BY <1>e, <1>t, <2>5 DEF TypeOK
      <4>2. \A s \in Sources : snapshots[s].next = Sizes[s]
        BY <4>1 DEF CollectInv, InOrder
      <4> QED BY <1>t, <4>2, ReadType DEF Report!AllSeen
    <3>2. Shown' = Report!Answer(flag, ReadSoFar)
      BY <2>1, <2>5, SameSources
         DEF Shown, Report!Answer, CollectInv, SnapshotsFollow
    <3>3. Outcome' = "answered"
      BY <2>1, <2>5 DEF Outcome
    <3>4. Report!Finish
      BY <1>e, <2>1, <2>4, <3>1, <3>2, <3>3, SameSources DEF Report!Finish
    <3> QED BY <2>3, <3>4 DEF Simulates
  <2>6. CASE kind # "report"
    <3>1. Outcome' = "failed" /\ Shown' = Shown
      BY <1>e, <2>1, <2>4, <2>6, SameReport DEF Outcome
    <3>2. Report!Finish
      BY <1>e, <2>1, <2>4, <3>1 DEF Report!Finish
    <3> QED BY <2>3, <3>2 DEF Simulates
  <2> QED BY <2>5, <2>6
<1>1. CASE Request
  BY <1>1, <1>q, <1>e DEF Request
<1>2. CASE Resume
  BY <1>2, <1>q, <1>e DEF Resume
<1>3. CASE ReadRecord
  <2>1. /\ source \in Sources /\ snapshots[source].next < Sizes[source]
        /\ ReadSoFar' = [ReadSoFar EXCEPT ![source] =
                             Append(@, down[<<source, Len(@) + 1>>])]
        /\ RowsRead' /\ SnapshotsFollow'
    BY <1>t, <1>3, ReadEffect
  <2>2. UNCHANGED <<down, flag, source, pc, answer>> /\ pc = "collect"
    BY <1>3 DEF ReadRecord
  <2>3. answer = "none"
    BY <2>2 DEF CollectInv, AnswerAtEnd
  <2>4. UNCHANGED <<Outcome, Shown>> /\ Outcome = "open"
    BY <2>2, <2>3, SameReport DEF Outcome
  <2>5. InOrder'
    <3>1. \A s \in Sources : s # source => snapshots'[s] = snapshots[s]
      BY <1>3, <1>t DEF ReadRecord, TypeOK
    <3> QED BY <2>2, <3>1 DEF CollectInv, InOrder
  <2>6. AnswerAtEnd'
    BY <2>2 DEF CollectInv, AnswerAtEnd
  <2>7. Report!See
    <3>1. ~Report!AllSeen(source)
      BY <1>t, <2>1, ReadType DEF Report!AllSeen
    <3>2. \A t \in Sources : t < source => Report!AllSeen(t)
      BY <1>t, ReadType DEF Report!AllSeen, CollectInv, InOrder
    <3> QED BY <2>1, <2>2, <2>4, <3>1, <3>2, SameSources DEF Report!See
  <2> QED BY <2>1, <2>5, <2>6, <2>7 DEF CollectInv, Simulates
<1>4. CASE SourceDone
  <2>1. UNCHANGED <<down, flag, snapshots, pc, answer, ReadSoFar, Outcome, Shown>>
    BY <1>4, SameReport DEF SourceDone
  <2>2. InOrder'
    <3>1. snapshots[source].next = Sizes[source]
      BY <1>4, <1>t DEF SourceDone, MoreRecords, TypeOK
    <3>2. source' = source + 1 /\ source \in Sources
      BY <1>4 DEF SourceDone
    <3>3. \A s \in Sources : s < source + 1 => s < source \/ s = source
      BY <3>2
    <3> QED BY <2>1, <3>1, <3>2, <3>3 DEF CollectInv, InOrder
  <2>3. RowsRead' /\ SnapshotsFollow'
    BY <2>1 DEF CollectInv, RowsRead, SnapshotsFollow
  <2>4. AnswerAtEnd'
    BY <1>4, <2>1 DEF SourceDone, CollectInv, AnswerAtEnd
  <2> QED BY <2>1, <2>2, <2>3, <2>4 DEF CollectInv, Simulates, Report!rvars
<1>5. CASE Contended
  BY <1>5, <1>q DEF Contended, WaitFor, Suspend
<1>6. CASE Exhausted
  BY <1>6, <1>q DEF Exhausted, WaitFor, Suspend
<1>7. CASE ReadFails
  BY <1>7, <1>e DEF ReadFails
<1>8. CASE WaitFails
  BY <1>8, <1>e DEF WaitFails
<1>9. CASE Output
  BY <1>9, <1>e DEF Output
<1>10. CASE Publish
  <2>1. UNCHANGED <<flag, source, snapshots, pc, answer>>
    BY <1>10 DEF Publish, collection
  <2>2. UNCHANGED <<ReadSoFar, Outcome, Shown>>
    BY <2>1, SameReport
  <2>3. CollectInv'
    BY <2>1, <2>2 DEF CollectInv, RowsRead, SnapshotsFollow, InOrder, AnswerAtEnd
  <2>4. Report!Change
    BY <1>10, <2>1, <2>2, SameSources DEF Publish, Report!Change
  <2> QED BY <2>3, <2>4 DEF Simulates
<1>11. CASE LoseConnection
  BY <1>11, <1>q DEF LoseConnection
<1>12. CASE Cancel
  BY <1>12, <1>e DEF Cancel
<1>13. CASE Tick
  BY <1>13, <1>q DEF Tick
<1>14. CASE UNCHANGED vars
  BY <1>14, <1>q DEF vars
<1> QED
  BY <1>1, <1>2, <1>3, <1>4, <1>5, <1>6, <1>7, <1>8, <1>9, <1>10, <1>11, <1>12,
     <1>13, <1>14
     DEF Next, Handler

\* Through batches, busy records and resumptions every record is read once and in
\* order, and an answer shows and counts what was read (snapshot_step,
\* request_collect).
THEOREM ReportRefinement == Spec => ImplementsStatusReport
<1>1. Init => CollectInv /\ Report!RInit
  BY InitCollect
<1>2. RequestInv /\ CollectInv /\ [Next]_vars => CollectInv' /\ Simulates
  BY CollectStep
<1> QED
  BY <1>1, <1>2, RequestAlways, PTL DEF Spec, Simulates, ImplementsStatusReport, Report!RSpec
=============================================================================
