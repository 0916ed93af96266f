---------------------------- MODULE TaskOutcome ----------------------------
(***************************************************************************)
(* What a handler's result does to its task row: Task::compute_update and  *)
(* the retry backoff of crates/domain/src/task/mod.rs.  Pure operators,     *)
(* used by TaskSystem (which applies them to a shared table) and run on     *)
(* their own by TaskRuns.                                                   *)
(*                                                                          *)
(* Abstracted: the error text, the metric label (OutcomeKind), the          *)
(* timestamps completed_at and updated_at.  next_run_at is kept as a delay  *)
(* from "now", with KeepNextRun for the None that the repository COALESCEs. *)
(***************************************************************************)
EXTENDS Integers

Pending    == "PENDING"
InProgress == "IN_PROGRESS"
Completed  == "COMPLETED"
DeadLetter == "DEAD_LETTER"

TaskStatus == {Pending, InProgress, Completed, DeadLetter}
Terminal   == {Completed, DeadLetter}

\* TaskResult: what a handler can return.
TaskResult == {"Success", "RetryableFailure", "PermanentFailure", "Skip", "Terminate"}

\* max_retries() = None and execution_interval() = None.
NoRetries  == -1
NoInterval == 0

\* next_run_at = None in a TaskUpdate: the row keeps the value it has.
KeepNextRun == -1

Update(st, att, delay) == [status |-> st, attempt |-> att, next |-> delay]

TaskUpdate ==
  [status : {Pending, Completed, DeadLetter}, attempt : Nat, next : Nat \cup {KeepNextRun}]

\* A recurring task goes back to PENDING with a clean retry budget.
OnSuccess(attempt, interval) ==
  IF interval # NoInterval
    THEN Update(Pending, 0, interval)
    ELSE Update(Completed, attempt, KeepNextRun)

\* Mutant: the status is left as it was.
OnPermanentFailure_KeepsStatus(attempt) == Update(InProgress, attempt, KeepNextRun)

OnPermanentFailure(attempt) == Update(DeadLetter, attempt, KeepNextRun)

\* Mutant: off by one.
CanRetry_OneMore(attempt, maxRetries) == maxRetries # NoRetries /\ attempt <= maxRetries

CanRetry(attempt, maxRetries) == maxRetries # NoRetries /\ attempt < maxRetries

\* Mutants: the attempt is not counted; it is counted by the caller as well.
OnRetryableFailure_KeepsCount(attempt, maxRetries, retryDelay) ==
  IF CanRetry(attempt, maxRetries)
    THEN Update(Pending, attempt, retryDelay)
    ELSE OnPermanentFailure(attempt)
OnRetryableFailure_CountsTwice(attempt, maxRetries, retryDelay) ==
  IF CanRetry(attempt, maxRetries)
    THEN Update(Pending, attempt + 2, retryDelay)
    ELSE OnPermanentFailure(attempt)

OnRetryableFailure(attempt, maxRetries, retryDelay) ==
  IF CanRetry(attempt, maxRetries)
    THEN Update(Pending, attempt + 1, retryDelay)
    ELSE OnPermanentFailure(attempt)

\* Mutant: a skipped task is over, recurring or not.
OnSkip_EndsSeries(attempt, interval) == Update(Completed, attempt, KeepNextRun)

\* Unlike OnSuccess, a skipped recurring task keeps the attempts it has used.
OnSkip(attempt, interval) ==
  IF interval # NoInterval
    THEN Update(Pending, attempt, interval)
    ELSE Update(Completed, attempt, KeepNextRun)

OnTerminate(attempt) == Update(Completed, attempt, KeepNextRun)

\* retryDelay is calculate_retry_delay's value; only a retry uses it.
ComputeUpdate(attempt, maxRetries, interval, retryDelay, result) ==
  CASE result = "Success"          -> OnSuccess(attempt, interval)
    [] result = "RetryableFailure" -> OnRetryableFailure(attempt, maxRetries, retryDelay)
    [] result = "PermanentFailure" -> OnPermanentFailure(attempt)
    [] result = "Skip"             -> OnSkip(attempt, interval)
    [] result = "Terminate"        -> OnTerminate(attempt)

----------------------------------------------------------------------------
(* Exponential backoff, in seconds.  maxInt stands for i64::MAX.            *)

MaxRetryBackoffSecs == 30 * 60
MaxBackoffExponent  == 10

LesserOf(a, b) == IF a <= b THEN a ELSE b

\* Mutant: the product wraps around.
SaturatingMul_Wraps(a, b, maxInt) == IF a > maxInt \div b THEN 0 ELSE a * b

SaturatingMul(a, b, maxInt) == IF a > maxInt \div b THEN maxInt ELSE a * b

CalculateRetryDelay(baseMs, attempt, maxInt) ==
  LET exp     == LesserOf(attempt, MaxBackoffExponent)
      delayMs == SaturatingMul(baseMs, 2^exp, maxInt)
  IN  LesserOf(delayMs \div 1000, MaxRetryBackoffSecs)
=============================================================================
