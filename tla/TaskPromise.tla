---------------------------- MODULE TaskPromise ----------------------------
(***************************************************************************)
(* What the task system promises to the code that schedules tasks and to   *)
(* the handlers it runs, with the poller, the queue, the claims and stale   *)
(* recovery left out: a task waits, runs - one task of an ordering key at a  *)
(* time - and its run either ends, with the row that compute_update makes of *)
(* its result, or is abandoned without a trace and the task waits again.     *)
(*                                                                          *)
(* TaskSystem implements this where polls and runs stay within their times;   *)
(* TaskDelivery is what it implements where they do not.                     *)
(***************************************************************************)
EXTENDS TaskOutcome

CONSTANTS Tasks, KeyOf, NoKey, MaxRetries, Interval, ResultsOf, RetryDelays

VARIABLES
  state,  \* of each task: NotCreated, Pending, InProgress while a handler runs, or terminal
  used    \* the attempts that count against max_retries

NotCreated == "NOT_CREATED"

Init ==
  /\ state = [t \in Tasks |-> NotCreated]
  /\ used  = [t \in Tasks |-> 0]

\* TaskScheduler::schedule_*
Submit(t) ==
  /\ state[t] = NotCreated
  /\ state' = [state EXCEPT ![t] = Pending]
  /\ UNCHANGED used

\* The handler is invoked: no run of the task, nor of its ordering key, is on.
Start(t) ==
  /\ state[t] = Pending
  /\ KeyOf[t] # NoKey => \A u \in Tasks : KeyOf[u] = KeyOf[t] => state[u] # InProgress
  /\ state' = [state EXCEPT ![t] = InProgress]
  /\ UNCHANGED used

\* What the handler may answer, or the timeout in its place.
RunResults(t) == ResultsOf[t] \cup {"RetryableFailure"}

\* The result is written to the row the run was started from.
Finish(t) ==
  /\ state[t] = InProgress
  /\ \E result \in RunResults(t), d \in RetryDelays :
       LET u == ComputeUpdate(used[t], MaxRetries[t], Interval[t], d, result) IN
       /\ state' = [state EXCEPT ![t] = u.status]
       /\ used'  = [used EXCEPT ![t] = u.attempt]

\* Runs are lost, with a worker or on their own: the tasks wait again, with the
\* attempts they had.
Abandon(lost) ==
  /\ \A t \in lost : state[t] = InProgress
  /\ state' = [t \in Tasks |-> IF t \in lost THEN Pending ELSE state[t]]
  /\ UNCHANGED used

Next ==
  \/ \E t \in Tasks : Submit(t) \/ Start(t) \/ Finish(t)
  \/ \E lost \in SUBSET Tasks : Abandon(lost)

Spec == Init /\ [][Next]_<<state, used>>
=============================================================================
