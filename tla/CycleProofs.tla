---------------------------- MODULE CycleProofs ----------------------------
(***************************************************************************)
(* The production counter for every rate, unit, jitter and window, and any *)
(* number of readings and settings of the clock.                           *)
(***************************************************************************)
EXTENDS CycleCount, TLAPS

LEMMA ConstantTypes ==
    /\ Rate \in Nat \ {0} /\ Unit \in Nat \ {0} /\ Window \in Nat \ {0}
    /\ Jitter \in Nat /\ MaxTime \in Nat /\ MaxSamples \in Nat /\ MaxSteps \in Nat
  BY CycleAssumption

-----------------------------------------------------------------------------
(* Arithmetic.                                                             *)

LEMMA ProductIsNat ==
    ASSUME NEW a \in Nat, NEW b \in Nat
    PROVE  a * b \in Nat
  OBVIOUS

LEMMA SumIsNat ==
    ASSUME NEW a \in Nat, NEW b \in Nat
    PROVE  a + b \in Nat
  OBVIOUS

LEMMA ProductGrows ==
    ASSUME NEW a \in Nat, NEW x \in Int, NEW y \in Int, x >= y
    PROVE  a * x \in Int /\ a * y \in Int /\ a * x >= a * y
<1>1. a * (x - y) >= 0 /\ a * (x - y) = a * x - a * y
  OBVIOUS
<1>2. QED
  BY <1>1

LEMMA ErrorsAdd ==
    ASSUME NEW u \in Nat, NEW j \in Nat,
           NEW w \in Int, NEW p \in Int, NEW f \in Int,
           2 * (w - p) \in (-u)..u, p - f \in (-j)..j
    PROVE  2 * (w - f) \in (-(u + 2 * j))..(u + 2 * j)
<1>1. -u <= 2 * (w - p) /\ 2 * (w - p) <= u /\ -j <= p - f /\ p - f <= j
  OBVIOUS
<1>2. 2 * (w - f) = 2 * (w - p) + 2 * (p - f)
  OBVIOUS
<1>3. QED
  BY <1>1, <1>2

USE ConstantTypes

\* round() is off by at most half a cycle.
LEMMA RoundIsClose ==
    ASSUME NEW n \in Nat
    PROVE  /\ Round(n) \in Nat
           /\ 2 * (Round(n) * Unit - n) \in (-Unit)..Unit
<1> DEFINE whole == n \div Unit
           rest  == n % Unit
<1>1. /\ whole \in Nat /\ rest \in Nat /\ rest < Unit
      /\ n = Unit * whole + rest
  OBVIOUS
<1> HIDE DEF whole, rest
<1>2. Round(n) = IF 2 * rest < Unit \/ (2 * rest = Unit /\ whole % 2 = 0)
                 THEN whole ELSE whole + 1
  BY DEF Round, whole, rest
<1>3. CASE Round(n) = whole /\ 2 * rest <= Unit
  <2>1. Round(n) * Unit - n = -rest
    BY <1>1, <1>3
  <2>2. QED
    BY <1>1, <1>3, <2>1
<1>4. CASE Round(n) = whole + 1 /\ 2 * rest >= Unit
  <2>1. Round(n) * Unit - n = Unit - rest
    BY <1>1, <1>4
  <2>2. QED
    BY <1>1, <1>4, <2>1
<1>5. QED
  BY <1>1, <1>2, <1>3, <1>4

LEMMA Counted ==
    ASSUME elapsed' \in Nat, total \in Nat, Count
    PROVE  /\ produced' \in Nat /\ grew' \in Nat /\ total' = total + grew'
           /\ 2 * (grew' * Unit - produced') \in (-Unit)..Unit
           /\ produced' - Rate * elapsed' \in (-Jitter)..Jitter
<1>1. PICK amount \in Jittered(Rate * elapsed') :
         /\ produced' = AtLeast0(amount)
         /\ grew' = Round(produced')
         /\ total' = total + grew'
  BY DEF Count
<1>2. Rate * elapsed' \in Nat
  BY ProductIsNat
<1> DEFINE exact == Rate * elapsed'
<1>3. exact \in Nat
  BY <1>2
<1> HIDE DEF exact
<1>4. amount \in Int /\ amount - exact \in (-Jitter)..Jitter
  <2>1. amount \in Jittered(exact)
    BY DEF exact
  <2>2. amount = exact \/ \E j \in (-Jitter)..Jitter : amount = exact + j
    BY <2>1 DEF Jittered
  <2>3. QED
    BY <1>3, <2>2
<1>5. produced' \in Nat /\ produced' - exact \in (-Jitter)..Jitter
  BY <1>1, <1>3, <1>4 DEF AtLeast0
<1>6. QED
  BY <1>1, <1>5, RoundIsClose DEF exact

-----------------------------------------------------------------------------
(* The invariant.                                                          *)

\* What a reading adds to the total is its amount, rounded.
Rounded == 2 * (grew * Unit - produced) \in (-Unit)..Unit

\* The time of the last reading is past, unless the clock was set back, and a
\* reading's total and rate come from one amount.
CounterInv ==
    /\ ~setBack => last <= clock
    /\ samples > 0 => Rounded
    /\ (samples > 0 /\ ~busy /\ elapsed >= Window) => rate = <<produced, elapsed>>

CycleInv == TypeOK /\ CounterInv /\ TotalFollowsClock

LEMMA CycleInit ==
    ASSUME Init
    PROVE  CycleInv
<1>1. TypeOK
  <2>1. clock \in 0..MaxTime /\ {clock, started, last} \subseteq 0..MaxTime
    BY DEF Init
  <2>2. {total, elapsed, produced, grew, lived, observed} \subseteq Nat
    BY DEF Init
  <2>3. rate \in Nat \X (Nat \ {0})
    BY DEF Init
  <2>4. busy \in BOOLEAN /\ setBack \in BOOLEAN
    BY Zenon DEF Init
  <2>5. samples \in 0..MaxSamples /\ steps \in 0..MaxSteps
    BY DEF Init
  <2>6. QED
    BY <2>1, <2>2, <2>3, <2>4, <2>5 DEF TypeOK
<1>2. CounterInv
  BY DEF Init, CounterInv
<1>3. TotalFollowsClock
  BY DEF Init, TotalFollowsClock
<1>4. QED
  BY <1>1, <1>2, <1>3 DEF CycleInv

\* The error of the total grows by that of the reading.
LEMMA TotalStep ==
    ASSUME TypeOK, CounterInv, TotalFollowsClock, Read
    PROVE  TotalFollowsClock'
<1>1. /\ clock \in Nat /\ started \in Nat /\ last \in Nat /\ total \in Nat
      /\ samples \in Nat
  BY DEF TypeOK
<1>2. /\ elapsed' = AtLeast0(clock - last) /\ last' = clock /\ Count
      /\ samples' = samples + 1 /\ started' = started /\ setBack' = setBack
  BY DEF Read
<1>3. elapsed' \in Nat /\ elapsed' >= clock - last
      /\ (~setBack => elapsed' = clock - last)
  BY <1>1, <1>2 DEF AtLeast0, CounterInv
<1>4. /\ produced' \in Nat /\ grew' \in Nat /\ total' = total + grew'
      /\ 2 * (grew' * Unit - produced') \in (-Unit)..Unit
      /\ produced' - Rate * elapsed' \in (-Jitter)..Jitter
  BY <1>1, <1>2, <1>3, Counted
<1> DEFINE before == 2 * (total * Unit - Rate * (last - started))
           after  == 2 * (total' * Unit - Rate * (clock - started))
           slack  == samples * (Unit + 2 * Jitter)
           full   == Rate * elapsed'
           seen   == Rate * (clock - last)
<1>5. before \in Int /\ slack \in Int /\ full \in Int /\ seen \in Int
      /\ grew' * Unit \in Int
  BY <1>1, <1>3, <1>4
<1>6. after = before + 2 * (grew' * Unit - seen)
  BY <1>1, <1>4
<1>7. full >= seen /\ (~setBack => full = seen)
  <2>1. clock - last \in Int /\ elapsed' \in Int /\ Rate \in Nat
    BY <1>1, <1>3
  <2>2. full >= seen
    BY <1>3, <2>1, ProductGrows
  <2>3. ~setBack => full = seen
    BY <1>3, Zenon
  <2>4. QED
    BY <2>2, <2>3
<1>8. (samples + 1) * (Unit + 2 * Jitter) = slack + Unit + 2 * Jitter
  BY <1>1
<1>9. -slack <= before /\ (~setBack => before <= slack)
  BY DEF TotalFollowsClock
<1> HIDE DEF before, after, slack, full, seen
<1>10. 2 * (grew' * Unit - full) \in (-(Unit + 2 * Jitter))..(Unit + 2 * Jitter)
  <2>1. produced' \in Int /\ produced' - full \in (-Jitter)..Jitter
    BY <1>4 DEF full
  <2>2. 2 * (grew' * Unit - produced') \in (-Unit)..Unit
    BY <1>4
  <2>3. QED
    BY <1>5, <2>1, <2>2, ErrorsAdd
<1>11. /\ -(slack + Unit + 2 * Jitter) <= after
       /\ ~setBack => after <= slack + Unit + 2 * Jitter
  BY <1>5, <1>6, <1>7, <1>9, <1>10
<1>12. QED
  BY <1>2, <1>8, <1>11 DEF TotalFollowsClock, after

LEMMA CycleStep ==
    ASSUME CycleInv, [Next]_vars
    PROVE  CycleInv'
<1> USE DEF CycleInv
<1>1. CASE PassTime
  <2>1. TypeOK'
    BY <1>1 DEF PassTime, TypeOK
  <2>2. CounterInv'
    BY <1>1 DEF PassTime, CounterInv, Rounded, TypeOK
  <2>3. TotalFollowsClock'
    BY <1>1 DEF PassTime, TotalFollowsClock
  <2>4. QED
    BY <2>1, <2>2, <2>3
<1>2. CASE SetClock
  <2>1. TypeOK'
    BY <1>2 DEF SetClock, TypeOK
  <2>2. CounterInv'
    <3>1. /\ UNCHANGED <<last, samples, grew, produced, busy, elapsed, rate>>
          /\ setBack' = (setBack \/ clock' < clock)
      BY <1>2 DEF SetClock, history
    <3>2. /\ clock \in Nat /\ clock' \in Nat /\ last \in Nat
      BY <1>2 DEF SetClock, TypeOK
    <3>3. ASSUME ~setBack' PROVE last' <= clock'
      <4>1. ~setBack /\ ~(clock' < clock)
        BY <3>1, <3>3, Zenon
      <4>2. last <= clock
        BY <4>1 DEF CounterInv
      <4>3. QED
        BY <3>1, <3>2, <4>1, <4>2
    <3>4. Rounded' = Rounded
      BY <3>1 DEF Rounded
    <3>5. QED
      BY <3>1, <3>3, <3>4 DEF CounterInv
  <2>3. TotalFollowsClock'
    BY <1>2 DEF SetClock, TotalFollowsClock, TypeOK
  <2>4. QED
    BY <2>1, <2>2, <2>3
<1>3. CASE Read
  <2>1. /\ elapsed' = AtLeast0(clock - last) /\ last' = clock /\ Count
        /\ clock \in 0..MaxTime /\ last \in 0..MaxTime /\ total \in Nat
        /\ UNCHANGED <<clock, started, rate, steps, setBack, lived>>
        /\ samples' = samples + 1 /\ samples < MaxSamples /\ samples \in Nat
        /\ busy' = TRUE /\ observed' = lived
    BY <1>3 DEF Read, TypeOK
  <2>2. elapsed' \in Nat
    BY <2>1 DEF AtLeast0
  <2>3. /\ produced' \in Nat /\ grew' \in Nat /\ total' = total + grew'
        /\ Rounded'
    <3>1. total \in Nat /\ Count
      BY <2>1
    <3>2. QED
      BY <2>2, <3>1, Counted DEF Rounded
  <2>4. TypeOK'
    <3>1. total' \in Nat
      <4>1. total \in Nat /\ grew' \in Nat /\ total' = total + grew'
        BY <2>1, <2>3
      <4>2. QED
        BY <4>1, SumIsNat
    <3>2. samples' \in 0..MaxSamples
      <4>1. samples' = samples + 1 /\ samples < MaxSamples /\ samples \in Nat
        BY <2>1
      <4>2. QED
        BY <4>1
    <3>3. last' \in 0..MaxTime
      BY <2>1
    <3>4. QED
      BY <2>1, <2>2, <2>3, <3>1, <3>2, <3>3 DEF TypeOK
  <2>5. CounterInv'
    BY <2>1, <2>3 DEF CounterInv
  <2>6. QED
    BY <1>3, <2>4, <2>5, TotalStep
<1>4. CASE Report
  <2>1. /\ rate' = RateOver(Uptime) /\ busy' = FALSE
        /\ UNCHANGED <<clock, started, last, total, elapsed, produced, grew,
                       samples, steps, setBack, lived, observed>>
    BY <1>4 DEF Report, history
  <2>2. /\ clock \in Nat /\ started \in Nat /\ total \in Nat
        /\ elapsed \in Nat /\ produced \in Nat
    BY DEF TypeOK
  <2>3. Uptime \in Nat
    BY <2>2 DEF Uptime, AtLeast0
  <2>4. total * Unit \in Nat
    BY <2>2
  <2>5. rate' \in Nat \X (Nat \ {0})
        /\ (elapsed >= Window => rate' = <<produced, elapsed>>)
    BY <2>1, <2>2, <2>3, <2>4 DEF RateOver
  <2>6. TypeOK'
    BY <2>1, <2>5 DEF TypeOK
  <2>7. CounterInv'
    BY <2>1, <2>5 DEF CounterInv, Rounded
  <2>8. TotalFollowsClock'
    BY <2>1 DEF TotalFollowsClock
  <2>9. QED
    BY <2>6, <2>7, <2>8
<1>5. CASE UNCHANGED vars
  BY <1>5 DEF vars, history, TypeOK, CounterInv, Rounded, TotalFollowsClock
<1>6. QED
  BY <1>1, <1>2, <1>3, <1>4, <1>5 DEF Next

LEMMA CycleAlways == Spec => []CycleInv
  BY CycleInit, CycleStep, PTL DEF Spec

\* The counter and what it reports stay natural numbers, and no rate is over
\* an interval of no length, whatever the clock does.
THEOREM CycleTypeCorrect == Spec => []TypeOK
<1>1. CycleInv => TypeOK
  BY DEF CycleInv
<1>2. QED
  BY <1>1, CycleAlways, PTL

\* cycle_count.py, read() and _rate(): each reading adds an error of at most
\* half a cycle and its jitter to the total, and its rate agrees with it.
THEOREM CounterIsHonest == Spec => []ReadingsTellProduction
<1>1. CycleInv => ReadingsTellProduction
  <2>1. SUFFICES ASSUME CycleInv, samples > 0, ~busy, elapsed >= Window
                 PROVE  2 * (rate[1] * elapsed - grew * Unit * rate[2])
                           \in (-(Unit * rate[2]))..(Unit * rate[2])
    BY DEF ReadingsTellProduction, RateAgreesWithTotal, CycleInv
  <2>2. rate[1] = produced /\ rate[2] = elapsed
    BY <2>1 DEF CycleInv, CounterInv
  <2>3. produced \in Nat /\ elapsed \in Nat /\ grew \in Nat
    BY <2>1 DEF CycleInv, TypeOK
  <2> DEFINE gap == 2 * (grew * Unit - produced)
  <2>4. gap \in (-Unit)..Unit
    BY <2>1 DEF CycleInv, CounterInv, Rounded
  <2>5. 2 * (produced * elapsed - grew * Unit * elapsed) = -(gap * elapsed)
    BY <2>3
  <2> HIDE DEF gap
  <2>6. gap * elapsed <= Unit * elapsed /\ gap * elapsed >= -(Unit * elapsed)
    BY <2>3, <2>4
  <2>7. gap * elapsed \in Int /\ Unit * elapsed \in Int
    BY <2>3, <2>4
  <2>8. QED
    BY <2>2, <2>5, <2>6, <2>7
<1>2. QED
  BY <1>1, CycleAlways, PTL

-----------------------------------------------------------------------------
(* The total, while nobody sets the clock.                                 *)

\* The clock then tells the time that has really passed.
ClockInv ==
    steps = 0 =>
        ~setBack /\ clock - started = lived /\ last - started = observed

LEMMA ClockInvInit == Init => ClockInv
  BY DEF Init, ClockInv

LEMMA ClockInvStep ==
    ASSUME TypeOK, ClockInv, [Next]_vars
    PROVE  ClockInv'
<1> USE DEF ClockInv
<1>1. clock \in Int /\ started \in Int /\ last \in Int /\ lived \in Int
      /\ steps \in Nat
  BY DEF TypeOK
<1>2. CASE PassTime
  BY <1>1, <1>2 DEF PassTime
<1>3. CASE SetClock
  BY <1>1, <1>3 DEF SetClock
<1>4. CASE Read
  BY <1>1, <1>4 DEF Read
<1>5. CASE Report
  BY <1>5 DEF Report, history
<1>6. CASE UNCHANGED vars
  BY <1>6 DEF vars, history
<1>7. QED
  BY <1>2, <1>3, <1>4, <1>5, <1>6 DEF Next

\* test_sensors.py:308 holds where readings are far enough apart: what each
\* of them rounds away is small against what it counts.
THEOREM SparseReadingsUnbiased == Spec => []UnbiasedWhenSparse
<1>1. ASSUME CycleInv, ClockInv, steps = 0,
             \/ samples * (Unit + 2 * Jitter) <= 2 * Unit
             \/ 25 * (samples * (Unit + 2 * Jitter)) <= Rate * observed
      PROVE  TotalUnbiased
  <2> DEFINE slack == samples * (Unit + 2 * Jitter)
             error == total * Unit - Rate * observed
             made  == Rate * observed
  <2>1. /\ total \in Nat /\ observed \in Nat /\ samples \in Nat
        /\ last - started = observed /\ ~setBack
    BY <1>1 DEF CycleInv, TypeOK, ClockInv
  <2>2. slack \in Nat /\ error \in Int /\ made \in Nat
    BY <2>1
  <2>3. -slack <= 2 * error /\ 2 * error <= slack
    BY <1>1, <2>1 DEF CycleInv, TotalFollowsClock
  <2>4. slack <= 2 * Unit \/ 25 * slack <= made
    BY <1>1
  <2> HIDE DEF slack, error, made
  <2>5. \/ error \in (-Unit)..Unit
        \/ 50 * error \in (-made)..made
    BY <2>2, <2>3, <2>4
  <2>6. QED
    BY <2>5 DEF TotalUnbiased, error, made
<1>2. CycleInv /\ ClockInv => UnbiasedWhenSparse
  BY <1>1 DEF UnbiasedWhenSparse
<1>3. CycleInv => TypeOK
  BY DEF CycleInv
<1>4. QED
  BY <1>2, <1>3, CycleAlways, ClockInvInit, ClockInvStep, PTL DEF Spec

=============================================================================
