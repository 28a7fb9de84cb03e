--------------------------- MODULE SettlementTwap ---------------------------
(***************************************************************************)
(* The trapezoidal spot integral of the last Duration seconds before an    *)
(* expiry (settlementTwap.ts): observe keeps it in memory and in a file,   *)
(* one save per step, and attachSettlementAggregates (cli.ts) posts what   *)
(* it returns.  The observations of a tracker never overlap, and one       *)
(* series is followed.  A series carries, as a history, the observations   *)
(* it stands for.                                                          *)
(***************************************************************************)
EXTENDS Integers, SequencesExt

CONSTANTS
    Prices,         \* spot prices
    WindowEnd,      \* the expiry
    Duration,       \* SETTLEMENT_TWAP_DURATION
    NoSeries,       \* no series for the expiry
    Unloaded,       \* the file has not been read since the start
    NothingPosted,
    AllowLate,      \* ORACLE_ALLOW_LATE_TWAP_BACKFILL
    MaxTwapFaults   \* bound: saves that fail and stops of the process

ASSUME TwapAssumption ==
    /\ Prices \subseteq Nat \ {0}
    /\ Duration \in Nat \ {0} /\ WindowEnd \in Nat /\ WindowEnd > Duration
    /\ AllowLate \in BOOLEAN /\ MaxTwapFaults \in Nat

VARIABLES
    clock,       \* the chain's clock
    twap,        \* the series in memory
    saved,       \* the series in the file
    observing,   \* where observe is, and the last timestamp it was given
    aggregate,   \* what was posted last
    twapFaults

twapVars == <<clock, twap, saved, observing, aggregate, twapFaults>>

WindowStart == WindowEnd - Duration

-----------------------------------------------------------------------------
\* BigInt division drops the fraction, whatever the sign.
Quotient(n, d) == IF n >= 0 THEN n \div d ELSE -((-n) \div d)

Trapezoid(left, right, d) == ((left + right) * d) \div 2

\* Mutant: the price before the window stands for its first second.
InterpolateLeft(leftTime, left, rightTime, right, target) == left

Interpolate(leftTime, left, rightTime, right, target) ==
    left + Quotient((right - left) * (target - leftTime), rightTime - leftTime)

\* The integral so far, with the interval before a first observation in the
\* window filled at its price if that has not been done.
Backfill(s) ==
    IF s.last > WindowStart /\ s.integral = 0
    THEN s.price * (s.last - WindowStart) ELSE s.integral

\* The integral of s with the observation of price p at t in the window.
Integrated(s, t, p) ==
    IF s.last < WindowStart
    THEN Trapezoid(Interpolate(s.last, s.price, t, p, WindowStart), p, t - WindowStart)
    ELSE Backfill(s) + Trapezoid(s.price, p, t - s.last)

NewSeries(t, p) ==
    [last |-> t, price |-> p, integral |-> 0, late |-> t > WindowStart, seen |-> <<<<t, p>>>>]

\* The series after an observation later than its last.
Observed(s, t, p) ==
    [last |-> t, price |-> p,
     integral |-> IF t < WindowStart THEN 0 ELSE Integrated(s, t, p),
     late |-> s.late \/ (t >= WindowStart /\ s.last > WindowStart /\ s.integral = 0),
     seen |-> Append(s.seen, <<t, p>>)]

TwapInit ==
    /\ clock = 0
    /\ twap = Unloaded /\ saved = NoSeries
    /\ observing = [at |-> "idle", t |-> 0]
    /\ aggregate = NothingPosted
    /\ twapFaults = 0

\* Memory is changed first.  The save replaces the file, or throws.
SaveOrThrow(s, next) ==
    /\ twap' = s
    /\ \/ saved' = s /\ observing' = [observing EXCEPT !.at = next, !.t = clock]
          /\ UNCHANGED twapFaults
       \/ /\ twapFaults < MaxTwapFaults
          /\ twapFaults' = twapFaults + 1
          /\ observing' = [at |-> "failed", t |-> clock]
          /\ UNCHANGED saved

\* ensureLoaded
Loaded == IF twap = Unloaded THEN saved ELSE twap

\* A snapshot is taken before the expiry.  After a throw or a stop the clock
\* has moved on: the interval and the start take longer than a block.
Observing ==
    /\ clock < WindowEnd
    /\ observing.at = "idle" \/ (observing.at = "failed" /\ clock > observing.t)

\* The first observation of the series: a save, and in the window another.
ObserveFirst(p) ==
    /\ Observing /\ Loaded = NoSeries
    /\ SaveOrThrow(NewSeries(clock, p), IF clock < WindowStart THEN "idle" ELSE "filling")
    /\ UNCHANGED <<clock, aggregate>>

FillFirst ==
    /\ observing.at = "filling"
    /\ SaveOrThrow([twap EXCEPT !.integral = twap.price * (clock - WindowStart)], "done")
    /\ UNCHANGED <<clock, aggregate>>

\* An observation that is no later returns what is known.
ObserveAgain ==
    /\ Observing /\ Loaded # NoSeries /\ clock <= Loaded.last
    /\ twap' = Loaded
    /\ observing' = [at |-> IF clock < WindowStart THEN "idle" ELSE "done", t |-> clock]
    /\ UNCHANGED <<clock, saved, aggregate, twapFaults>>

ObserveLater(p) ==
    /\ Observing /\ Loaded # NoSeries /\ clock > Loaded.last
    /\ SaveOrThrow(Observed(Loaded, clock, p), IF clock < WindowStart THEN "idle" ELSE "done")
    /\ UNCHANGED <<clock, aggregate>>

\* attachSettlementAggregates: a late series is posted where that is allowed,
\* else the whole snapshot is refused.
Post ==
    /\ observing.at = "done"
    /\ observing' = [observing EXCEPT !.at = "idle"]
    /\ aggregate' = IF twap.late /\ ~AllowLate THEN aggregate
                    ELSE [value |-> Max({twap.integral, 1}), t |-> twap.last,
                          late |-> twap.late, seen |-> twap.seen]
    /\ UNCHANGED <<clock, twap, saved, twapFaults>>

ClockTicks ==
    /\ clock < WindowEnd /\ observing.at \in {"idle", "failed"}
    /\ clock' = clock + 1
    /\ UNCHANGED <<twap, saved, observing, aggregate, twapFaults>>

TwapCrash ==
    /\ twapFaults < MaxTwapFaults
    /\ twapFaults' = twapFaults + 1
    /\ twap' = Unloaded
    /\ observing' = [at |-> "failed", t |-> clock]
    /\ UNCHANGED <<clock, saved, aggregate>>

TwapNext ==
    \/ (\E p \in Prices : ObserveFirst(p) \/ ObserveLater(p))
    \/ FillFirst \/ ObserveAgain \/ Post \/ ClockTicks \/ TwapCrash

TwapSpec == TwapInit /\ [][TwapNext]_twapVars

-----------------------------------------------------------------------------
\* The area under the line through two observations, from the window's start
\* on, times twice their distance; the price at the start is a fraction.
AreaBetween(a, b) ==
    LET d == b[1] - a[1]
        atStart == a[2] * d + (b[2] - a[2]) * (WindowStart - a[1])
    IN  CASE b[1] <= WindowStart -> 0
          [] a[1] >= WindowStart -> (a[2] + b[2]) * d * d
          [] OTHER -> (atStart + b[2] * d) * (b[1] - WindowStart)

\* Twice the area from observation i to the next, times m, a multiple of every
\* distance.
AreaFrom(seen, m, i) ==
    (AreaBetween(seen[i], seen[i + 1]) * m) \div (seen[i + 1][1] - seen[i][1])

\* Twice the area under the observations in seen, times m.
Area(seen, m) ==
    (IF seen[1][1] > WindowStart THEN 2 * seen[1][2] * (seen[1][1] - WindowStart) * m ELSE 0)
    + MapThenSumSet(LAMBDA i : AreaFrom(seen, m, i), 1..Len(seen) - 1)

Factorial[n \in Nat] == IF n = 0 THEN 1 ELSE n * Factorial[n - 1]

\* What is posted is the area under the observations the tracker has kept, but
\* for the fractions that each division drops: no interval is counted twice
\* or left out, across failed saves and a stop between the two saves of a
\* new series (SettlementTwapTracker.observe).
PostedIsTheArea ==
    aggregate # NothingPosted =>
        LET m == Factorial[WindowEnd]
            drift == 2 * aggregate.value * m - Area(aggregate.seen, m)
            fractions == (Duration + Len(aggregate.seen) + 1) * m
        IN  -fractions <= drift /\ drift <= (Duration + 2) * m

Serieses == [last : 0..WindowEnd, price : Prices, integral : Nat, late : BOOLEAN,
             seen : Seq((0..WindowEnd) \X Prices)]

\* The tracker's series have their types.
TwapTypeOK ==
    /\ clock \in 0..WindowEnd
    /\ twap \in Serieses \cup {NoSeries, Unloaded}
    /\ saved \in Serieses \cup {NoSeries}
    /\ observing \in [at : {"idle", "filling", "done", "failed"}, t : 0..WindowEnd]
=============================================================================
