---------------------------- MODULE DelayStats ----------------------------
(***************************************************************************)
(* The delay statistics of a peer (ngx_healthcheck_update_delay in         *)
(* ngx_healthcheck_common.c, called by submit for every sample).  Sums are *)
(* unsigned integers of fixed width: when the total or the number of       *)
(* samples would overflow, the number is halved and the total rebuilt from *)
(* the average.  An update that cannot make room fails and submit keeps    *)
(* the previous statistics.                                                *)
(***************************************************************************)
EXTENDS Integers

CONSTANTS MaxTotal,   \* UINT64_MAX
          MaxDelay    \* the longest delay a sample can have

ASSUME DelayAssumption ==
    /\ MaxTotal \in Nat /\ MaxTotal >= 3
    /\ MaxDelay \in Nat
    /\ 2 * MaxDelay <= MaxTotal

VARIABLE stats   \* total, count, last, avg, min, max

Delays == 0..MaxDelay

Stats == [total : 0..MaxTotal, count : 0..MaxTotal,
          last : Delays, avg : Delays, min : Delays, max : Delays]

NoSamples == [total |-> 0, count |-> 0, last |-> 0, avg |-> 0, min |-> 0, max |-> 0]

First(delay) == [total |-> delay, count |-> 1, last |-> delay, avg |-> delay,
                 min |-> delay, max |-> delay]

\* One more sample would overflow the total or the number.
Full(delay) == stats.total > MaxTotal - delay \/ stats.count = MaxTotal

OldAvg == stats.total \div stats.count

\* Halving stops at the first number of samples whose total leaves room, or at 0.
Halved(count, delay) ==
    LET halved[c \in 0..count] ==
            IF c = 0 \/ OldAvg * c <= MaxTotal - delay THEN c ELSE halved[c \div 2]
    IN  halved[count]

\* A plausible bug: the total shrinks with the halvings, the number does not.
UnmatchedCount(count, delay) ==
    [total |-> OldAvg * Halved(count, delay), count |-> count]

Rescaled(count, delay) ==
    LET c == Halved(count, delay) IN [total |-> OldAvg * c, count |-> c]

\* The number of samples before the total is rebuilt.
HalfCount ==
    LET half == stats.count \div 2 + 1
    IN  IF OldAvg # 0 /\ half > MaxTotal \div OldAvg
        THEN MaxTotal \div OldAvg ELSE half

\* A plausible bug: the maximum is forgotten.
OneExtreme(delay) == [min |-> IF delay < stats.min THEN delay ELSE stats.min,
                      max |-> stats.max]

Extremes(delay) == [min |-> IF delay < stats.min THEN delay ELSE stats.min,
                    max |-> IF delay > stats.max THEN delay ELSE stats.max]

\* The statistics with one more sample, when there is room for it.
Added(sum, delay) ==
    LET total == sum.total + delay
        count == sum.count + 1
    IN  [total |-> total, count |-> count, last |-> delay,
         avg |-> total \div count,
         min |-> Extremes(delay).min, max |-> Extremes(delay).max]

Updated(delay) ==
    IF stats.count = 0 THEN First(delay)
    ELSE Added(IF Full(delay) THEN Rescaled(HalfCount, delay) ELSE stats, delay)

\* The halved number reached 0: the update returns NGX_ERROR.
Fails(delay) ==
    /\ stats.count # 0
    /\ Full(delay)
    /\ Halved(HalfCount, delay) = 0

Init == stats = NoSamples

Update(delay) ==
    /\ ~Fails(delay)
    /\ stats' = Updated(delay)

Next == \E delay \in Delays : Update(delay)

Spec == Init /\ [][Next]_stats

----------------------------------------------------------------------------
(***************************************************************************)
(* Properties                                                              *)
(***************************************************************************)

\* The statistics keep their types: no field exceeds its width.
TypeOK == stats \in Stats

\* The average is in the range of the samples, and it is the quotient of the
\* published total and number.
MeanWithinExtremes ==
    stats.count # 0 =>
        /\ stats.avg = stats.total \div stats.count
        /\ stats.min <= stats.avg /\ stats.avg <= stats.max
        /\ stats.min <= stats.last /\ stats.last <= stats.max

\* A sample of at most half the width is never refused, at any total and any
\* number of samples (update_delay's error returns are unreachable).
NeverFails == \A delay \in Delays : ~Fails(delay)

\* However often the sums were rescaled, no field exceeds its width, average
\* and extremes fit the samples, and there is room for the next sample.
StatisticsSound == TypeOK /\ MeanWithinExtremes /\ NeverFails

\* A new sample pulls the average towards itself and not beyond, also in the
\* step that rescales the sums.
AverageFollowsSample ==
    [][LET a == stats.avg
           d == stats'.last
       IN  stats.count # 0 =>
              /\ d >= a => a <= stats'.avg /\ stats'.avg <= d
              /\ d <= a => d <= stats'.avg /\ stats'.avg <= a]_stats

=============================================================================
