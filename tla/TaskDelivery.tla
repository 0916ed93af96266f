---------------------------- MODULE TaskDelivery ----------------------------
(***************************************************************************)
(* What is left of TaskPromise when a poll may outlive its lock and a run    *)
(* the stale threshold: delivery at least once.  A task may be run again      *)
(* while a run of it is going, and even after one has finished it.  What      *)
(* stays is that a run starts from the row as it is then, that it writes to   *)
(* that row at most once, what compute_update makes of the attempts it has    *)
(* read, and that nothing but such a write counts an attempt or ends a task.  *)
(*                                                                          *)
(* TaskSystem implements this with no assumption on time, TaskPromise is a    *)
(* special case of it, and the ProcessVideo rows of VideoLifecycle live by it. *)
(***************************************************************************)
EXTENDS TaskOutcome

CONSTANTS Tasks, NoTask,
          Runners,  \* places a run may take
          MaxRetries, Interval, ResultsOf, RetryDelays

VARIABLES
  state,  \* of each task: NotCreated, Pending, InProgress (a run holds it), or terminal
  used,   \* the attempts that count against max_retries
  job     \* of each runner: the task it runs and the attempts it has read

NotCreated == "NOT_CREATED"

Job(t, att) == [task |-> t, attempt |-> att]
NoJob       == Job(NoTask, 0)

Init ==
  /\ state = [t \in Tasks |-> NotCreated]
  /\ used  = [t \in Tasks |-> 0]
  /\ job   = [r \in Runners |-> NoJob]

\* TaskScheduler::schedule_*
Submit(t) ==
  /\ state[t] = NotCreated
  /\ state' = [state EXCEPT ![t] = Pending]
  /\ UNCHANGED <<used, job>>

\* A handler is invoked, with the row as it is.
Start(r, t) ==
  /\ job[r] = NoJob
  /\ state[t] \in {Pending, InProgress}
  /\ state' = [state EXCEPT ![t] = InProgress]
  /\ job' = [job EXCEPT ![r] = Job(t, used[t])]
  /\ UNCHANGED used

\* What the handler may answer, or the timeout in its place.
RunResults(t) == ResultsOf[t] \cup {"RetryableFailure"}

\* The result is written, whatever the row is by now.
Finish(r) ==
  LET t == job[r].task IN
  /\ job[r] # NoJob
  /\ \E result \in RunResults(t), d \in RetryDelays :
       LET u == ComputeUpdate(job[r].attempt, MaxRetries[t], Interval[t], d, result) IN
       /\ state' = [state EXCEPT ![t] = u.status]
       /\ used'  = [used EXCEPT ![t] = u.attempt]
  /\ job' = [job EXCEPT ![r] = NoJob]

\* Runs are lost; a task that is left without one waits again.
Lose(lost) ==
  /\ job' = [r \in Runners |-> IF r \in lost THEN NoJob ELSE job[r]]
  /\ state' = [t \in Tasks |->
                 IF state[t] = InProgress /\ ~\E r \in Runners : job'[r].task = t
                   THEN Pending ELSE state[t]]
  /\ UNCHANGED used

\* Tasks are taken from runs that are still going.
Reset(rows) ==
  /\ \A t \in rows : state[t] = InProgress
  /\ state' = [t \in Tasks |-> IF t \in rows THEN Pending ELSE state[t]]
  /\ UNCHANGED <<used, job>>

\* Tasks are claimed again, whatever has become of them.
Claim(rows) ==
  /\ \A t \in rows : state[t] # NotCreated
  /\ state' = [t \in Tasks |->
                 IF t \notin rows THEN state[t]
                 ELSE IF \E r \in Runners : job[r].task = t THEN InProgress ELSE Pending]
  /\ UNCHANGED <<used, job>>

\* Most steps of what implements this are none of it; TLC tries them in order.
Next ==
  \/ UNCHANGED <<state, used, job>>
  \/ \E t \in Tasks : Submit(t)
  \/ \E r \in Runners : Finish(r) \/ \E t \in Tasks : Start(r, t)
  \/ \E lost \in SUBSET Runners : Lose(lost)
  \/ \E rows \in SUBSET Tasks : Reset(rows) \/ Claim(rows)

Spec == Init /\ [][Next]_<<state, used, job>>
=============================================================================
