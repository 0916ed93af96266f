----------------------------- MODULE TaskRuns ------------------------------
(***************************************************************************)
(* The life of ONE task whose handler is run again and again with nothing  *)
(* else in the way: no crash, no second worker.  Each step is one run and   *)
(* the batch_update of what compute_update made of its result.  It is the   *)
(* place to ask what the retry budget and the backoff add up to over many   *)
(* runs; TaskSystem asks what concurrency does to them.                     *)
(***************************************************************************)
EXTENDS TaskOutcome

CONSTANTS
  MaxRetriesOf,   \* the max_retries values tried
  IntervalsOf,    \* the execution_interval values tried (seconds)
  BaseDelaysMs,   \* the retry_base_delay values tried
  MaxInt,         \* i64::MAX, scaled to what TLC computes with
  MaxRuns         \* bound: number of runs followed

ASSUME TaskRunsAssumption ==
  /\ MaxRetriesOf \subseteq Nat \cup {NoRetries}
  /\ IntervalsOf \subseteq Nat
  /\ BaseDelaysMs \subseteq Nat
  /\ MaxInt \in Nat \ {0}
  /\ MaxRuns \in Nat

VARIABLES
  config,     \* [maxRetries, interval, base]: the TaskMetadata of this task
  row,        \* the update last written to the row
  runs,       \* runs so far
  failures,   \* retryable failures since the last success (history)
  delays,     \* the last two retry delays, <<older, newer>> (history)
  last        \* the last result (history)

vars == <<config, row, runs, failures, delays, last>>

Init ==
  /\ config \in [maxRetries : MaxRetriesOf, interval : IntervalsOf, base : BaseDelaysMs]
  /\ row = Update(Pending, 0, 0)
  /\ runs = 0
  /\ failures = 0
  /\ delays = <<0, 0>>
  /\ last = "None"

Run(result) ==
  LET delay  == CalculateRetryDelay(config.base, row.attempt, MaxInt)
      update == ComputeUpdate(row.attempt, config.maxRetries, config.interval, delay, result)
  IN
  /\ row.status = Pending
  /\ runs < MaxRuns
  /\ row' = update
  /\ runs' = runs + 1
  /\ last' = result
  /\ failures' = CASE result = "Success"          -> 0
                   [] result = "RetryableFailure" -> failures + 1
                   [] OTHER                       -> failures
  /\ delays' = CASE result = "RetryableFailure" /\ update.status = Pending
                                           -> <<delays[2], update.next>>
                 [] result = "Success"     -> <<0, 0>>
                 [] OTHER                  -> delays
  /\ UNCHANGED config

Next == \E result \in TaskResult : Run(result)

Spec == Init /\ [][Next]_vars

----------------------------------------------------------------------------
(* Properties                                                              *)

TypeOK ==
  /\ config \in [maxRetries : MaxRetriesOf, interval : IntervalsOf, base : BaseDelaysMs]
  /\ row \in TaskUpdate
  /\ runs \in 0..MaxRuns
  /\ failures \in Nat
  /\ delays \in Nat \X Nat
  /\ last \in TaskResult \cup {"None"}

\* A task is dead-lettered only by a permanent failure, or by the retryable
\* failure that follows max_retries earlier ones since its last success: the
\* budget is spent exactly, across skips and recurring cycles alike
\* (on_retryable_failure, on_success, on_skip).
DeadLetterSpendsTheBudget ==
  row.status = DeadLetter =>
    \/ last = "PermanentFailure"
    \/ /\ last = "RetryableFailure"
       /\ failures = (IF config.maxRetries = NoRetries THEN 1 ELSE config.maxRetries + 1)

\* While failures follow one another the wait never gets shorter, and it never
\* exceeds the 30 minutes promised by calculate_retry_delay's doc comment, also
\* when the product saturates.
BackoffGrowsToItsCap ==
  /\ delays[1] <= delays[2]
  /\ delays[2] <= MaxRetryBackoffSecs

\* A recurring task that has not failed for good is always scheduled again, a
\* full interval or a backoff later: no result but Terminate ends the series,
\* and a task that has ended is never scheduled.
RecurringKeepsRunning ==
  /\ config.interval # NoInterval /\ row.status = Completed => last = "Terminate"
  /\ row.status \in Terminal <=> row.next = KeepNextRun
=============================================================================
