----------------------------- MODULE CycleCount -----------------------------
(***************************************************************************)
(* The production counter: read() infers from two looks at the wall clock  *)
(* what the machine has produced, keeps whole cycles only, and reports a   *)
(* rate beside the total.  The clock runs on between those looks, and may  *)
(* be set.                                                                 *)
(*                                                                         *)
(* Time is in ticks.  Amounts are in shares, Unit shares to a cycle, so    *)
(* that the fractions of the code stay exact; a rate is a pair, shares per *)
(* ticks.  The rounding of the reported rate is left out.                  *)
(***************************************************************************)
EXTENDS Integers

CONSTANTS
    Rate,        \* cycles_per_minute: shares per tick
    Unit,        \* shares that make one cycle
    Jitter,      \* what the jitter may add to or take from one reading
    Window,      \* MIN_RATE_WINDOW_MINUTES, in ticks
    MaxTime,     \* bound of the model: the latest time the clock shows
    MaxSamples,  \* bound of the model: readings
    MaxSteps     \* bound of the model: times that the clock is set

ASSUME CycleAssumption ==
    /\ {Rate, Unit, Window} \subseteq Nat \ {0}
    /\ {Jitter, MaxTime, MaxSamples, MaxSteps} \subseteq Nat

VARIABLES
    clock,      \* the wall clock
    started,    \* self._started_at
    last,       \* self._last_sampled_at
    total,      \* self._cycles_total
    busy,       \* read() is between its two looks at the clock
    elapsed,    \* minutes: the interval of the current reading
    produced,   \* produced, in shares, of the current reading
    grew,       \* history: cycles that the current reading has added
    rate,       \* the rate that was reported last
    samples,    \* history: readings taken
    steps,      \* history: times that the clock was set
    setBack,    \* history: it was set to an earlier time
    lived,      \* history: ticks that have really passed
    observed    \* history: of these, the ones before the last reading

history == <<samples, steps, setBack, lived, observed>>
vars == <<clock, started, last, total, busy, elapsed, produced, grew, rate,
          history>>

AtLeast0(n) == IF n < 0 THEN 0 ELSE n

\* round(), which takes a half to the even neighbour.
Round(shares) ==
    LET whole == shares \div Unit
        rest  == 2 * (shares % Unit)
    IN  IF rest < Unit \/ (rest = Unit /\ whole % 2 = 0) THEN whole ELSE whole + 1

Init ==
    /\ clock \in 0..MaxTime
    /\ started = clock
    /\ last = clock
    /\ total = 0
    /\ busy = FALSE
    /\ elapsed = 0
    /\ produced = 0
    /\ grew = 0
    /\ rate = <<0, 1>>
    /\ samples = 0
    /\ steps = 0
    /\ setBack = FALSE
    /\ lived = 0
    /\ observed = 0

-----------------------------------------------------------------------------
PassTime ==
    /\ clock < MaxTime
    /\ clock' = clock + 1
    /\ lived' = lived + 1
    /\ UNCHANGED <<started, last, total, busy, elapsed, produced, grew, rate,
                   samples, steps, setBack, observed>>

\* Someone, or NTP, sets the clock.
SetClock ==
    /\ steps < MaxSteps
    /\ steps' = steps + 1
    /\ clock' \in 0..MaxTime
    /\ setBack' = (setBack \/ clock' < clock)
    /\ UNCHANGED <<started, last, total, busy, elapsed, produced, grew, rate,
                   samples, lived, observed>>

\* What jitter can make of an amount.  None is applied to nothing.
Jittered(amount) ==
    IF amount > 0 THEN {amount + j : j \in (-Jitter)..Jitter} ELSE {amount}

\* Broken variant: what the jitter makes negative is subtracted.
CountSigned ==
    \E amount \in Jittered(Rate * elapsed') :
        /\ produced' = amount
        /\ grew' = Round(produced')
        /\ total' = total + grew'

\* "A physical counter only ever counts up; jitter must not reverse it."
Count ==
    \E amount \in Jittered(Rate * elapsed') :
        /\ produced' = AtLeast0(amount)
        /\ grew' = Round(produced')
        /\ total' = total + grew'

\* read(), up to the new total.
Read ==
    /\ ~busy
    /\ samples < MaxSamples
    /\ busy' = TRUE
    /\ elapsed' = AtLeast0(clock - last)
    /\ last' = clock
    /\ Count
    /\ samples' = samples + 1
    /\ observed' = lived
    /\ UNCHANGED <<clock, started, rate, steps, setBack, lived>>

\* elapsed_seconds() looks at the clock once more.
Uptime == AtLeast0(clock - started)

\* Broken variant: the total, divided by the interval.
RateOfTotal(uptime) ==
    IF elapsed >= Window THEN <<total * Unit, elapsed>>
    ELSE IF uptime > 0 THEN <<total * Unit, uptime>>
    ELSE <<0, 1>>

\* _rate(): over the interval if that is long enough, or over the uptime.
RateOver(uptime) ==
    IF elapsed >= Window THEN <<produced, elapsed>>
    ELSE IF uptime > 0 THEN <<total * Unit, uptime>>
    ELSE <<0, 1>>

\* read(), from the new total on.
Report ==
    /\ busy
    /\ busy' = FALSE
    /\ rate' = RateOver(Uptime)
    /\ UNCHANGED <<clock, started, last, total, elapsed, produced, grew, history>>

Next == PassTime \/ SetClock \/ Read \/ Report

Spec == Init /\ [][Next]_vars

-----------------------------------------------------------------------------
TypeOK ==
    /\ {clock, started, last} \subseteq 0..MaxTime
    /\ {total, elapsed, produced, grew, lived, observed} \subseteq Nat
    /\ busy \in BOOLEAN
    /\ rate \in Nat \X (Nat \ {0})
    /\ samples \in 0..MaxSamples
    /\ steps \in 0..MaxSteps
    /\ setBack \in BOOLEAN

\* The total follows production: a reading adds an error of at most half a
\* cycle and its jitter, however readings are spaced.  No interval is missed,
\* whatever the clock is set to, and none is counted twice as long as the
\* clock is not set back.
TotalFollowsClock ==
    LET error == 2 * (total * Unit - Rate * (last - started))
        slack == samples * (Unit + 2 * Jitter)
    IN  /\ -slack <= error
        /\ ~setBack => error <= slack

\* The rate and the total of one reading tell of the same production: over
\* a window that is long enough they agree up to the rounding of the total.
RateAgreesWithTotal ==
    (samples > 0 /\ ~busy /\ elapsed >= Window) =>
        LET error == 2 * (rate[1] * elapsed - grew * Unit * rate[2])
        IN  error \in (-(Unit * rate[2]))..(Unit * rate[2])

\* What one reading tells is the production of the time it covers, in its
\* total and in its rate (cycle_count.py, read() and _rate()).
ReadingsTellProduction == TotalFollowsClock /\ RateAgreesWithTotal

\* test_sensors.py:308, of the total: it "stays unbiased regardless of
\* sampling interval", and allows 2 percent.  Here a cycle is allowed, too.
TotalUnbiased ==
    LET error == total * Unit - Rate * observed
    IN  \/ error \in (-Unit)..Unit
        \/ 50 * error \in (-(Rate * observed))..(Rate * observed)

\* What is left of it: with the clock left alone the total is unbiased, at
\* any time, if the readings so far stand on average for 25 cycles and their
\* jitter, or if they are too few to add up to a cycle of error.
UnbiasedWhenSparse ==
    LET slack == samples * (Unit + 2 * Jitter)
    IN  steps = 0 /\ (slack <= 2 * Unit \/ 25 * slack <= Rate * observed)
            => TotalUnbiased

=============================================================================
