----------------------------- MODULE Scheduler ------------------------------
(***************************************************************************)
(* scheduler.py: the owner starts and stops a loop, and the thread of the  *)
(* loop runs the task until it sees the stop event.  Time is left out: a   *)
(* wait that is not cut short by the event may end whenever it likes.      *)
(***************************************************************************)
EXTENDS Naturals

CONSTANT
    MaxStarts   \* bound of the model: threads ever started

ASSUME MaxStartsAssumption == MaxStarts \in Nat

VARIABLES
    event,     \* self._stop
    handle,    \* self._thread, 0 for None
    pc,        \* where each thread is, by the order of starts
    owner,     \* the owner is "free", or "joining" inside stop()
    late,      \* history: tasks begun since the event was last set
    immediately  \* self._run_immediately

vars == <<event, handle, pc, owner, late, immediately>>

ThreadId == 1..MaxStarts

Init ==
    /\ event = FALSE
    /\ handle = 0
    /\ pc = [t \in ThreadId |-> "unborn"]
    /\ owner = "free"
    /\ late = 0
    /\ immediately \in BOOLEAN

Live == {t \in ThreadId : pc[t] \notin {"unborn", "dead"}}

-----------------------------------------------------------------------------
(* The owner.                                                              *)

\* Broken variant: a thread that is alive does not stand in the way.
StartAgain ==
    /\ owner = "free"
    /\ \E t \in ThreadId :
          /\ pc[t] = "unborn"
          /\ \A u \in 1..(t - 1) : pc[u] # "unborn"
          /\ handle' = t
          /\ pc' = [pc EXCEPT ![t] = IF immediately THEN "check" ELSE "first"]
    /\ event' = FALSE
    /\ late' = 0
    /\ UNCHANGED <<owner, immediately>>

\* Broken variant: the thread is made and never started.
StartForgotten ==
    /\ owner = "free"
    /\ handle \notin Live
    /\ \E t \in ThreadId : pc[t] = "unborn" /\ handle' = t
    /\ event' = FALSE
    /\ late' = 0
    /\ UNCHANGED <<pc, owner, immediately>>

\* start() refuses with a RuntimeError while the thread it knows is alive,
\* and it only clears the event after that.
Start ==
    /\ owner = "free"
    /\ handle \notin Live
    /\ \E t \in ThreadId :
          /\ pc[t] = "unborn"
          /\ \A u \in 1..(t - 1) : pc[u] # "unborn"
          /\ handle' = t
          /\ pc' = [pc EXCEPT ![t] = IF immediately THEN "check" ELSE "first"]
    /\ event' = FALSE
    /\ late' = 0
    /\ UNCHANGED <<owner, immediately>>

\* stop() sets the event; with no thread it is done.
Stop ==
    /\ owner = "free"
    /\ event' = TRUE
    /\ owner' = IF handle = 0 THEN "free" ELSE "joining"
    /\ UNCHANGED <<handle, pc, late, immediately>>

\* The thread is dead when join(timeout) returns: stop() is True.
Joined ==
    /\ owner = "joining"
    /\ pc[handle] = "dead"
    /\ handle' = 0
    /\ owner' = "free"
    /\ UNCHANGED <<event, pc, late, immediately>>

\* Broken variant: the thread is forgotten although it lives.
JoinForgets ==
    /\ owner = "joining"
    /\ pc[handle] # "dead"
    /\ handle' = 0
    /\ owner' = "free"
    /\ UNCHANGED <<event, pc, late, immediately>>

\* The thread outlives join(timeout): stop() is False and keeps the handle.
JoinTimesOut ==
    /\ owner = "joining"
    /\ pc[handle] # "dead"
    /\ owner' = "free"
    /\ UNCHANGED <<event, handle, pc, late, immediately>>

-----------------------------------------------------------------------------
(* _loop.                                                                  *)

\* A wait returns True when the event is set, and False after its time.
FirstWait(t) ==
    /\ pc[t] = "first"
    /\ pc' = [pc EXCEPT ![t] = IF event THEN "dead" ELSE "check"]
    /\ UNCHANGED <<event, handle, owner, late, immediately>>

\* Broken variant: while True.
CheckNothing(t) ==
    /\ pc[t] = "check"
    /\ pc' = [pc EXCEPT ![t] = "go"]
    /\ UNCHANGED <<event, handle, owner, late, immediately>>

\* while not self._stop.is_set()
Check(t) ==
    /\ pc[t] = "check"
    /\ pc' = [pc EXCEPT ![t] = IF event THEN "dead" ELSE "go"]
    /\ UNCHANGED <<event, handle, owner, late, immediately>>

\* The event may be set between the check and the task.
Enter(t) ==
    /\ pc[t] = "go"
    /\ pc' = [pc EXCEPT ![t] = "task"]
    /\ late' = IF event THEN late + 1 ELSE late
    /\ UNCHANGED <<event, handle, owner, immediately>>

Return(t) ==
    /\ pc[t] = "task"
    /\ pc' = [pc EXCEPT ![t] = "wait"]
    /\ UNCHANGED <<event, handle, owner, late, immediately>>

\* Broken variant: the exception leaves the loop.
RaiseEnds(t) ==
    /\ pc[t] = "task"
    /\ pc' = [pc EXCEPT ![t] = "dead"]
    /\ UNCHANGED <<event, handle, owner, late, immediately>>

\* Whatever the task raises is caught and reported, and whatever the report
\* raises is swallowed; the loop goes on.
Raise(t) ==
    /\ pc[t] = "task"
    /\ pc' = [pc EXCEPT ![t] = "wait"]
    /\ UNCHANGED <<event, handle, owner, late, immediately>>

Rest(t) ==
    /\ pc[t] = "wait"
    /\ pc' = [pc EXCEPT ![t] = IF event THEN "dead" ELSE "check"]
    /\ UNCHANGED <<event, handle, owner, late, immediately>>

-----------------------------------------------------------------------------
Run(t) ==
    \/ FirstWait(t)
    \/ Check(t)
    \/ Enter(t)
    \/ Return(t)
    \/ Raise(t)
    \/ Rest(t)

Next ==
    \/ Start
    \/ Stop
    \/ Joined
    \/ JoinTimesOut
    \/ \E t \in ThreadId : Run(t)

Spec == Init /\ [][Next]_vars

\* Threads are scheduled and tasks return: every task of the agent is
\* bounded by its timeouts.  The owner need not do anything.
FairSpec == Spec /\ \A t \in ThreadId : WF_vars(Run(t))

-----------------------------------------------------------------------------
TypeOK ==
    /\ event \in BOOLEAN
    /\ handle \in 0..MaxStarts
    /\ pc \in [ThreadId -> {"unborn", "first", "check", "go", "task", "wait",
                            "dead"}]
    /\ owner \in {"free", "joining"}
    /\ handle # 0 => pc[handle] # "unborn"
    /\ late \in Nat
    /\ immediately \in BOOLEAN

\* Two threads of one scheduler never run at once, whatever stop() timed out
\* in between: two samplers would interleave their cycles.
OneThread == \A t, u \in Live : t = u

\* The thread that is alive is the one the scheduler knows: once stop() has
\* returned True, nothing runs the task until the next start().
KnownThread == Live \subseteq {handle}

\* After stop() has set the event at most one more task begins: the one
\* whose check came just before.
OneTaskAfterStop == late <= 1

\* The thread must outlive the task (scheduler.py:115): it ends only because
\* of the stop event.
EndsOnlyByStop ==
    [][\A t \in ThreadId : pc[t] # "dead" /\ pc'[t] = "dead" => event]_vars

\* A stop() takes effect in the end, also after it has timed out: the event
\* cannot be cleared again while the thread is alive.
StopTakesEffect == event /\ Live # {} ~> Live = {}

\* The scheduler is a Loop: the rest of the agent needs to know no more.
L == INSTANCE Loop WITH
        alive <- Live # {},
        stop  <- event,
        busy  <- \E t \in ThreadId : pc[t] \in {"go", "task"}

LoopSpec == L!LSpec

=============================================================================
