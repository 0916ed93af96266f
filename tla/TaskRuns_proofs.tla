-------------------------- MODULE TaskRuns_proofs --------------------------
(***************************************************************************)
(* Theorems about TaskRuns: what the retry budget and the backoff add up    *)
(* to, for every budget, interval, base delay and number of runs.           *)
(***************************************************************************)
EXTENDS TaskRuns, TLAPS

----------------------------------------------------------------------------
(* The backoff                                                             *)

Multipliers == {1, 2, 4, 8, 16, 32, 64, 128, 256, 512, 1024}

\* The exponent is clamped, so these are all the multipliers there are.
LEMMA PowerGrows ==
  ASSUME NEW n \in Nat
  PROVE  LET b == 2^LesserOf(n, MaxBackoffExponent)
             c == 2^LesserOf(n + 1, MaxBackoffExponent)
         IN  b \in Multipliers /\ c \in Multipliers /\ (c = b \/ c = 2 * b)
<1>1. CASE n >= 10
  <2>1. LesserOf(n, MaxBackoffExponent) = 10 /\ LesserOf(n + 1, MaxBackoffExponent) = 10
    BY <1>1 DEF LesserOf, MaxBackoffExponent
  <2>2. 2^10 = 1024
    OBVIOUS
  <2>3. 2^LesserOf(n, MaxBackoffExponent) = 1024 /\ 2^LesserOf(n + 1, MaxBackoffExponent) = 1024
    BY <2>1, <2>2, Zenon
  <2>4. QED
    BY <2>3 DEF Multipliers
<1>2. ASSUME n < 10 PROVE 2^n \in Multipliers /\ 2^(n + 1) \in Multipliers /\ 2^(n + 1) = 2 * 2^n
  <2>1. n \in {0, 1, 2, 3, 4, 5, 6, 7, 8, 9}
    BY <1>2
  <2>2. CASE n = 0
    BY <2>2 DEF Multipliers
  <2>3. CASE n = 1
    BY <2>3 DEF Multipliers
  <2>4. CASE n = 2
    BY <2>4 DEF Multipliers
  <2>5. CASE n = 3
    BY <2>5 DEF Multipliers
  <2>6. CASE n = 4
    BY <2>6 DEF Multipliers
  <2>7. CASE n = 5
    BY <2>7 DEF Multipliers
  <2>8. CASE n = 6
    BY <2>8 DEF Multipliers
  <2>9. CASE n = 7
    BY <2>9 DEF Multipliers
  <2>10. CASE n = 8
    BY <2>10 DEF Multipliers
  <2>11. CASE n = 9
    BY <2>11 DEF Multipliers
  <2>12. QED
    BY <2>1, <2>2, <2>3, <2>4, <2>5, <2>6, <2>7, <2>8, <2>9, <2>10, <2>11
<1>3. CASE n < 10
  <2>1. LesserOf(n, MaxBackoffExponent) = n /\ LesserOf(n + 1, MaxBackoffExponent) = n + 1
    BY <1>3 DEF LesserOf, MaxBackoffExponent
  <2>2. QED
    BY <1>2, <1>3, <2>1
<1>4. QED
  BY <1>1, <1>3

\* saturating_mul by a multiplier, and by the next one.
LEMMA MulGrows ==
  ASSUME NEW a \in Nat, NEW m \in Nat,
         NEW b \in Multipliers
  PROVE  /\ SaturatingMul(a, b, m) \in Nat
         /\ SaturatingMul(a, b, m) <= SaturatingMul(a, 2 * b, m)
  BY DEF Multipliers, SaturatingMul

LEMMA DelayGrows ==
  ASSUME NEW base \in Nat, NEW n \in Nat
  PROVE  /\ CalculateRetryDelay(base, n, MaxInt) \in Nat
         /\ CalculateRetryDelay(base, n, MaxInt) <= MaxRetryBackoffSecs
         /\ CalculateRetryDelay(base, n, MaxInt) <= CalculateRetryDelay(base, n + 1, MaxInt)
<1> DEFINE b == 2^LesserOf(n, MaxBackoffExponent)
           c == 2^LesserOf(n + 1, MaxBackoffExponent)
<1>1. b \in Multipliers /\ c \in Multipliers /\ (c = b \/ c = 2 * b)
  BY PowerGrows
<1>2. /\ CalculateRetryDelay(base, n, MaxInt)
           = LesserOf(SaturatingMul(base, b, MaxInt) \div 1000, MaxRetryBackoffSecs)
      /\ CalculateRetryDelay(base, n + 1, MaxInt)
           = LesserOf(SaturatingMul(base, c, MaxInt) \div 1000, MaxRetryBackoffSecs)
  BY DEF CalculateRetryDelay
<1> HIDE DEF b, c
<1>3. /\ SaturatingMul(base, b, MaxInt) \in Nat /\ SaturatingMul(base, c, MaxInt) \in Nat
      /\ SaturatingMul(base, b, MaxInt) <= SaturatingMul(base, c, MaxInt)
  <2>1. MaxInt \in Nat
    BY TaskRunsAssumption
  <2>2. SaturatingMul(base, b, MaxInt) \in Nat /\ SaturatingMul(base, c, MaxInt) \in Nat
    BY <1>1, <2>1, MulGrows
  <2>3. SaturatingMul(base, b, MaxInt) <= SaturatingMul(base, 2 * b, MaxInt)
    BY <1>1, <2>1, MulGrows
  <2>4. QED
    BY <1>1, <2>2, <2>3
<1>4. QED
  BY <1>2, <1>3 DEF LesserOf, MaxRetryBackoffSecs

----------------------------------------------------------------------------
(* The invariant                                                           *)

\* The row counts the failures since the last success, within the budget; the
\* next delay is no shorter than the last one.
RunsInv ==
  /\ row.status = Pending =>
       /\ row.attempt = failures
       /\ row.attempt <= (IF config.maxRetries = NoRetries THEN 0 ELSE config.maxRetries)
       /\ delays[2] <= CalculateRetryDelay(config.base, row.attempt, MaxInt)
  /\ DeadLetterSpendsTheBudget
  /\ BackoffGrowsToItsCap
  /\ RecurringKeepsRunning

LEMMA ConfigType ==
  ASSUME TypeOK
  PROVE  /\ config.maxRetries \in Nat \cup {NoRetries} /\ config.interval \in Nat
         /\ config.base \in Nat /\ row.attempt \in Nat
  BY TaskRunsAssumption DEF TypeOK, TaskUpdate

LEMMA InitInv == Init => TypeOK /\ RunsInv
<1> SUFFICES ASSUME Init PROVE TypeOK /\ RunsInv
  OBVIOUS
<1>1. row = [status |-> Pending, attempt |-> 0, next |-> 0] /\ failures = 0 /\ delays = <<0, 0>>
      /\ runs = 0 /\ last = "None"
  BY DEF Init, Update
<1>2. TypeOK
  BY <1>1, TaskRunsAssumption DEF Init, TypeOK, TaskUpdate
<1>3. CalculateRetryDelay(config.base, 0, MaxInt) \in Nat
  BY <1>2, ConfigType, DelayGrows
<1>4. QED
  BY <1>1, <1>2, <1>3, ConfigType
  DEF RunsInv, DeadLetterSpendsTheBudget, BackoffGrowsToItsCap, RecurringKeepsRunning, Pending,
      Completed, DeadLetter, Terminal, KeepNextRun, NoRetries, MaxRetryBackoffSecs

LEMMA RunInv ==
  ASSUME TypeOK, RunsInv, NEW result \in TaskResult, Run(result)
  PROVE  TypeOK' /\ RunsInv'
<1> DEFINE delay == CalculateRetryDelay(config.base, row.attempt, MaxInt)
<1>1. /\ config.maxRetries \in Nat \cup {NoRetries} /\ config.interval \in Nat
      /\ config.base \in Nat /\ row.attempt \in Nat /\ failures \in Nat
  BY ConfigType DEF TypeOK
<1>2. /\ delay \in Nat /\ delay <= MaxRetryBackoffSecs
      /\ delay <= CalculateRetryDelay(config.base, row.attempt + 1, MaxInt)
  BY <1>1, DelayGrows
<1>3. /\ row.attempt = failures
      /\ row.attempt <= (IF config.maxRetries = NoRetries THEN 0 ELSE config.maxRetries)
      /\ delays[2] <= delay /\ delays[1] <= delays[2] /\ delays \in Nat \X Nat
  BY DEF RunsInv, BackoffGrowsToItsCap, Run, TypeOK
<1>4. /\ row' = ComputeUpdate(row.attempt, config.maxRetries, config.interval, delay, result)
      /\ runs' \in 0..MaxRuns /\ last' = result /\ UNCHANGED config
  BY TaskRunsAssumption DEF Run, TypeOK
<1>5. 0 <= CalculateRetryDelay(config.base, 0, MaxInt)
  <2>1. CalculateRetryDelay(config.base, 0, MaxInt) \in Nat
    BY <1>1, DelayGrows
  <2>2. QED
    BY <2>1
<1> HIDE DEF delay
<1>6. CASE result = "Success"
  <2>1. /\ failures' = 0 /\ delays' = <<0, 0>>
        /\ row' = OnSuccess(row.attempt, config.interval)
    BY <1>4, <1>6 DEF Run, ComputeUpdate
  <2>2. QED
    BY <1>1, <1>3, <1>4, <1>5, <1>6, <2>1
    DEF OnSuccess, Update, TypeOK, TaskUpdate, TaskResult, RunsInv, DeadLetterSpendsTheBudget,
        BackoffGrowsToItsCap, RecurringKeepsRunning, Pending, Completed, DeadLetter, Terminal,
        KeepNextRun, NoRetries, NoInterval, MaxRetryBackoffSecs
<1>7. CASE result = "RetryableFailure"
  <2>1. /\ failures' = failures + 1
        /\ row' = OnRetryableFailure(row.attempt, config.maxRetries, delay)
        /\ delays' = IF row'.status = Pending THEN <<delays[2], row'.next>> ELSE delays
    BY <1>4, <1>7 DEF Run, ComputeUpdate, delay
  <2>2. CASE CanRetry(row.attempt, config.maxRetries)
    <3>1. row' = [status |-> Pending, attempt |-> row.attempt + 1, next |-> delay]
      BY <2>1, <2>2 DEF OnRetryableFailure, Update
    <3>2. delays' = <<delays[2], delay>>
      BY <2>1, <3>1
    <3>3. QED
      BY <1>1, <1>2, <1>3, <1>4, <1>7, <2>1, <2>2, <3>1, <3>2
      DEF CanRetry, TypeOK, TaskUpdate, TaskResult, RunsInv, DeadLetterSpendsTheBudget,
          BackoffGrowsToItsCap, RecurringKeepsRunning, Pending, Completed, DeadLetter, Terminal,
          KeepNextRun, NoRetries, NoInterval
  <2>3. CASE ~CanRetry(row.attempt, config.maxRetries)
    <3>1. row' = [status |-> DeadLetter, attempt |-> row.attempt, next |-> KeepNextRun]
      BY <2>1, <2>3 DEF OnRetryableFailure, OnPermanentFailure, Update
    <3>2. delays' = delays
      BY <2>1, <3>1 DEF Pending, DeadLetter
    <3>3. failures' = (IF config.maxRetries = NoRetries THEN 1 ELSE config.maxRetries + 1)
      BY <1>1, <1>3, <2>1, <2>3 DEF CanRetry, NoRetries
    <3>4. QED
      BY <1>1, <1>2, <1>3, <1>4, <1>7, <2>1, <3>1, <3>2, <3>3
      DEF TypeOK, TaskUpdate, TaskResult, RunsInv, DeadLetterSpendsTheBudget,
          BackoffGrowsToItsCap, RecurringKeepsRunning, Pending, Completed, DeadLetter, Terminal,
          KeepNextRun
  <2>4. QED
    BY <2>2, <2>3
<1>8. CASE result \in {"PermanentFailure", "Skip", "Terminate"}
  <2>1. failures' = failures /\ delays' = delays
    BY <1>8 DEF Run
  <2>2. \/ row' = [status |-> DeadLetter, attempt |-> row.attempt, next |-> KeepNextRun]
           /\ result = "PermanentFailure"
        \/ row' = [status |-> Pending, attempt |-> row.attempt, next |-> config.interval]
           /\ config.interval # NoInterval
        \/ row' = [status |-> Completed, attempt |-> row.attempt, next |-> KeepNextRun]
           /\ (result = "Terminate" \/ config.interval = NoInterval)
    BY <1>4, <1>8 DEF ComputeUpdate, OnPermanentFailure, OnSkip, OnTerminate, Update
  <2>3. QED
    BY <1>1, <1>2, <1>3, <1>4, <1>8, <2>1, <2>2
    DEF TypeOK, TaskUpdate, TaskResult, RunsInv, DeadLetterSpendsTheBudget, delay,
        BackoffGrowsToItsCap, RecurringKeepsRunning, Pending, Completed, DeadLetter, Terminal,
        KeepNextRun, NoRetries, NoInterval
<1>9. QED
  BY <1>6, <1>7, <1>8 DEF TaskResult

----------------------------------------------------------------------------
(* The theorems                                                            *)

LEMMA RunsInvariant == Spec => [](TypeOK /\ RunsInv)
<1>1. ASSUME TypeOK, RunsInv, [Next]_vars PROVE TypeOK' /\ RunsInv'
  <2>1. CASE Next
    BY <1>1, <2>1, RunInv DEF Next
  <2>2. CASE UNCHANGED vars
    BY <1>1, <2>2
    DEF vars, TypeOK, RunsInv, DeadLetterSpendsTheBudget, BackoffGrowsToItsCap,
        RecurringKeepsRunning
  <2>3. QED
    BY <1>1, <2>1, <2>2
<1>2. QED
  BY <1>1, InitInv, PTL DEF Spec

\* The row keeps its type: an update never leaves a task IN_PROGRESS or a count
\* below zero, whatever its TaskMetadata.
THEOREM TypeCorrect == Spec => []TypeOK
  BY RunsInvariant, PTL

\* The retry budget is spent exactly, for every budget and every series of
\* results, skips and recurring cycles included.
THEOREM BudgetIsSpent == Spec => []DeadLetterSpendsTheBudget
<1>1. RunsInv => DeadLetterSpendsTheBudget
  BY DEF RunsInv
<1>2. QED
  BY <1>1, RunsInvariant, PTL

\* Between successes the backoff never shrinks and never exceeds its cap, for
\* every base delay, also where the product saturates.
THEOREM BackoffIsMonotone == Spec => []BackoffGrowsToItsCap
<1>1. RunsInv => BackoffGrowsToItsCap
  BY DEF RunsInv
<1>2. QED
  BY <1>1, RunsInvariant, PTL

\* Only Terminate completes a recurring task, and only an ended task is left
\* without a next run.
THEOREM RecurringGoesOn == Spec => []RecurringKeepsRunning
<1>1. RunsInv => RecurringKeepsRunning
  BY DEF RunsInv
<1>2. QED
  BY <1>1, RunsInvariant, PTL
=============================================================================
