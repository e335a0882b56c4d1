-------------------------- MODULE SchedulerProofs ---------------------------
(***************************************************************************)
(* The scheduler, for any number of starts: one thread at a time, one more *)
(* task at most after stop(), no end without it, and so a Loop.            *)
(***************************************************************************)
EXTENDS Scheduler, TLAPS

USE MaxStartsAssumption

Pc == {"unborn", "first", "check", "go", "task", "wait", "dead"}

\* The inductive invariant.  The event is cleared only by a start() that saw
\* no living thread, so every task that begins late was let through by the
\* one check that came before stop().
SchedulerInv ==
    /\ TypeOK
    /\ KnownThread
    /\ owner = "joining" => handle # 0
    /\ ~event => late = 0
    /\ OneTaskAfterStop
    /\ late = 1 => \A t \in ThreadId : pc[t] # "go"

LEMMA SchedulerInvInit == Init => SchedulerInv
<1> SUFFICES ASSUME Init
             PROVE  SchedulerInv
  OBVIOUS
<1>1. 0 \in 0..MaxStarts
  OBVIOUS
<1>2. TypeOK
  BY <1>1 DEF Init, TypeOK
<1>3. Live = {}
  BY DEF Init, Live
<1>4. late = 0 /\ owner = "free" /\ late <= 1
  BY DEF Init
<1>5. QED
  BY <1>2, <1>3, <1>4 DEF SchedulerInv, KnownThread, OneTaskAfterStop

\* A thread that moves is the one the scheduler knows.
LEMMA OnlyHandleRuns ==
    ASSUME SchedulerInv, NEW t \in ThreadId, Run(t)
    PROVE  /\ t = handle /\ t \in Live /\ Live = {t}
           /\ \A u \in ThreadId : u # t => pc[u] \in {"unborn", "dead"}
<1>1. pc[t] \notin {"unborn", "dead"}
  BY DEF Run, FirstWait, Check, Enter, Return, Raise, Rest
<1>2. QED
  BY <1>1 DEF SchedulerInv, KnownThread, Live

\* start() finds no thread alive.
LEMMA StartFindsNone ==
    ASSUME SchedulerInv, Start
    PROVE  Live = {}
BY DEF SchedulerInv, KnownThread, Start

LEMMA SchedulerInvPreserved ==
    ASSUME SchedulerInv, [Next]_vars
    PROVE  SchedulerInv'
<1>1. /\ TypeOK /\ KnownThread /\ (owner = "joining" => handle # 0)
      /\ (~event => late = 0) /\ late <= 1
      /\ (late = 1 => \A t \in ThreadId : pc[t] # "go")
      /\ pc \in [ThreadId -> Pc]
  BY DEF SchedulerInv, OneTaskAfterStop, TypeOK, Pc
<1>2. CASE Start
  <2>1. PICK t \in ThreadId :
           /\ handle' = t
           /\ pc' = [pc EXCEPT ![t] = IF immediately THEN "check" ELSE "first"]
    BY <1>2 DEF Start
  <2>2. /\ event' = FALSE /\ late' = 0 /\ owner' = "free" /\ owner = "free"
        /\ UNCHANGED immediately
    BY <1>2 DEF Start
  <2>3. Live = {}
    BY <1>2, StartFindsNone
  <2>4. TypeOK'
    <3>1. t \in 0..MaxStarts
      BY DEF ThreadId
    <3>2. pc'[t] # "unborn" /\ pc' \in [ThreadId -> Pc]
      BY <1>1, <2>1 DEF Pc
    <3>3. QED
      BY <1>1, <2>1, <2>2, <3>1, <3>2 DEF TypeOK, Pc
  <2>5. KnownThread'
    BY <1>1, <2>1, <2>3 DEF KnownThread, Live
  <2>6. QED
    BY <2>2, <2>4, <2>5 DEF SchedulerInv, OneTaskAfterStop
<1>3. CASE Stop
  BY <1>1, <1>3 DEF Stop, SchedulerInv, TypeOK, KnownThread, Live,
                    OneTaskAfterStop
<1>4. CASE Joined
  BY <1>1, <1>4 DEF Joined, SchedulerInv, TypeOK, KnownThread, Live,
                    OneTaskAfterStop
<1>5. CASE JoinTimesOut
  BY <1>1, <1>5 DEF JoinTimesOut, SchedulerInv, TypeOK, KnownThread, Live,
                    OneTaskAfterStop
<1>6. ASSUME NEW t \in ThreadId, Run(t)
      PROVE  SchedulerInv'
  <2>1. /\ t = handle /\ Live = {t}
        /\ \A u \in ThreadId : u # t => pc[u] \in {"unborn", "dead"}
    BY <1>6, OnlyHandleRuns
  <2>2. /\ UNCHANGED <<event, handle, owner, immediately>>
        /\ \E to \in {"check", "go", "task", "wait", "dead"} :
              pc' = [pc EXCEPT ![t] = to]
    BY <1>6 DEF Run, FirstWait, Check, Enter, Return, Raise, Rest
  <2>3. /\ late' \in Nat /\ late' <= 1 /\ (~event => late' = 0)
        /\ (late' = 1 => pc'[t] # "go")
    BY <1>1, <1>6 DEF Run, FirstWait, Check, Enter, Return, Raise, Rest,
                      TypeOK
  <2>4. TypeOK'
    BY <1>1, <2>2, <2>3 DEF TypeOK
  <2>5. KnownThread'
    BY <1>1, <2>1, <2>2 DEF KnownThread, Live
  <2>6. late' = 1 => \A u \in ThreadId : pc'[u] # "go"
    BY <1>1, <2>1, <2>2, <2>3
  <2>7. QED
    BY <1>1, <2>2, <2>3, <2>4, <2>5, <2>6 DEF SchedulerInv, OneTaskAfterStop
<1>7. CASE UNCHANGED vars
  BY <1>1, <1>7 DEF vars, SchedulerInv, TypeOK, KnownThread, Live,
                    OneTaskAfterStop
<1>8. QED
  BY <1>2, <1>3, <1>4, <1>5, <1>6, <1>7 DEF Next

-----------------------------------------------------------------------------
\* However stop() times out and start() is called again, at most one thread
\* runs, it is the one the scheduler will join, and stop() lets at most one
\* more task begin (scheduler.py, start(), stop() and _loop()).
THEOREM SchedulerSafe ==
    Spec => [](TypeOK /\ OneThread /\ KnownThread /\ OneTaskAfterStop)
<1>1. SchedulerInv => TypeOK /\ OneThread /\ KnownThread /\ OneTaskAfterStop
  BY DEF SchedulerInv, KnownThread, OneThread, OneTaskAfterStop
<1>2. SchedulerInv /\ [Next]_vars => SchedulerInv'
  BY SchedulerInvPreserved
<1>3. QED
  BY SchedulerInvInit, <1>1, <1>2, PTL DEF Spec

\* "The thread must outlive the task" (scheduler.py:115): whatever the task
\* raises, a thread dies only when the stop event is set.
THEOREM ThreadOutlivesTask == Spec => EndsOnlyByStop
<1>1. ASSUME SchedulerInv, [Next]_vars
      PROVE  [\A t \in ThreadId :
                 pc[t] # "dead" /\ pc'[t] = "dead" => event]_vars
  <2>1. CASE Start
    <3>1. PICK t \in ThreadId :
             pc' = [pc EXCEPT ![t] = IF immediately THEN "check" ELSE "first"]
      BY <2>1 DEF Start
    <3>2. pc \in [ThreadId -> Pc]
      BY <1>1 DEF SchedulerInv, TypeOK, Pc
    <3>3. QED
      BY <3>1, <3>2
  <2>2. CASE Stop \/ Joined \/ JoinTimesOut
    BY <2>2 DEF Stop, Joined, JoinTimesOut
  <2>3. ASSUME NEW t \in ThreadId, Run(t)
        PROVE  \A u \in ThreadId : pc[u] # "dead" /\ pc'[u] = "dead" => event
    BY <1>1, <2>3 DEF Run, FirstWait, Check, Enter, Return, Raise, Rest,
                      SchedulerInv, TypeOK
  <2>4. QED
    BY <1>1, <2>1, <2>2, <2>3 DEF Next
<1>2. SchedulerInv /\ [Next]_vars => SchedulerInv'
  BY SchedulerInvPreserved
<1>3. QED
  BY SchedulerInvInit, <1>1, <1>2, PTL DEF Spec, EndsOnlyByStop

\* The scheduler implements Loop, which is all that Agent assumes of it.
THEOREM SchedulerImplementsLoop == Spec => LoopSpec
<1> USE DEF L!LInit, L!LNext, L!Start, L!SetStop, L!Tick, L!TickEnds, L!End,
            L!loopVars
<1>1. Init => L!LInit
  BY DEF Init, Live
<1>2. ASSUME SchedulerInv, [Next]_vars
      PROVE  [L!LNext]_(L!loopVars)
  <2>1. pc \in [ThreadId -> Pc]
    BY <1>2 DEF SchedulerInv, TypeOK, Pc
  <2>2. CASE Start
    <3>1. PICK t \in ThreadId :
             pc' = [pc EXCEPT ![t] = IF immediately THEN "check" ELSE "first"]
      BY <2>2 DEF Start
    <3>2. Live = {} /\ event' = FALSE
      BY <1>2, <2>2, StartFindsNone DEF Start
    <3>3. t \in Live' /\ \A u \in ThreadId : pc'[u] \notin {"go", "task"}
      BY <2>1, <3>1, <3>2 DEF Live
    <3>4. QED
      BY <3>2, <3>3
  <2>3. CASE Stop \/ Joined \/ JoinTimesOut
    BY <2>3 DEF Stop, Joined, JoinTimesOut, Live
  <2>4. ASSUME NEW t \in ThreadId, Run(t)
        PROVE  [L!LNext]_(L!loopVars)
    <3>1. /\ Live = {t}
          /\ \A u \in ThreadId : u # t => pc[u] \in {"unborn", "dead"}
      BY <1>2, <2>4, OnlyHandleRuns
    <3>2. UNCHANGED event
      BY <2>4 DEF Run, FirstWait, Check, Enter, Return, Raise, Rest
    <3>3. PICK to \in {"check", "go", "task", "wait", "dead"} :
             pc' = [pc EXCEPT ![t] = to]
      BY <2>4 DEF Run, FirstWait, Check, Enter, Return, Raise, Rest
    <3>4. /\ to = "dead" => event /\ pc[t] \in {"first", "check", "wait"}
          /\ to = "go" => ~event /\ pc[t] = "check"
          /\ to = "task" => pc[t] = "go"
          /\ to = "wait" => pc[t] = "task"
          /\ to = "check" => pc[t] \in {"first", "wait"}
      BY <2>1, <2>4, <3>3 DEF Run, FirstWait, Check, Enter, Return, Raise,
                              Rest
    <3>5. /\ (\E u \in ThreadId : pc'[u] \in {"go", "task"})
             <=> to \in {"go", "task"}
          /\ (\E u \in ThreadId : pc[u] \in {"go", "task"})
             <=> pc[t] \in {"go", "task"}
      BY <2>1, <3>1, <3>3
    <3>6. Live' = IF to = "dead" THEN {} ELSE {t}
      BY <2>1, <3>1, <3>3 DEF Live
    <3>7. CASE to = "dead"
      BY <3>1, <3>2, <3>4, <3>5, <3>6, <3>7
    <3>8. CASE to # "dead"
      BY <3>1, <3>2, <3>4, <3>5, <3>6, <3>8
    <3>9. QED
      BY <3>7, <3>8
  <2>5. CASE UNCHANGED vars
    BY <2>5 DEF vars, Live
  <2>6. QED
    BY <1>2, <2>2, <2>3, <2>4, <2>5 DEF Next
<1>3. SchedulerInv /\ [Next]_vars => SchedulerInv'
  BY SchedulerInvPreserved
<1>4. QED
  BY SchedulerInvInit, <1>1, <1>2, <1>3, PTL DEF Spec, LoopSpec, L!LSpec

=============================================================================
