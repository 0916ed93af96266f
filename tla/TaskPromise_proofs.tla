------------------------- MODULE TaskPromise_proofs -------------------------
(***************************************************************************)
(* TaskPromise is a special case of TaskDelivery: where polls and runs stay *)
(* within their times, the one run that a task has is the job of a runner of  *)
(* its own, started from the row as it still is when the run ends.           *)
(***************************************************************************)
EXTENDS TaskPromise, TLAPS

NoTask == CHOOSE t : t \notin Tasks

\* Each task is its own runner, busy while a handler runs.
RunOf == [t \in Tasks |-> IF state[t] = InProgress THEN [task |-> t, attempt |-> used[t]]
                          ELSE [task |-> NoTask, attempt |-> 0]]

Delivery == INSTANCE TaskDelivery WITH Runners <- Tasks, job <- RunOf

RowsTyped ==
  /\ state \in [Tasks -> TaskStatus \cup {NotCreated}]
  /\ used \in [Tasks -> Nat]

OutcomesTyped ==
  /\ MaxRetries \in [Tasks -> Nat \cup {NoRetries}]
  /\ Interval \in [Tasks -> Nat]
  /\ ResultsOf \in [Tasks -> SUBSET TaskResult]
  /\ RetryDelays \subseteq Nat

LEMMA NoTaskIsNone == NoTask \notin Tasks
  BY NoSetContainsEverything DEF NoTask

\* compute_update leaves no row IN_PROGRESS and no counter below zero, and is
\* the same operator in both modules.
LEMMA UpdateEnds ==
  ASSUME NEW a \in Nat, NEW m \in Nat \cup {NoRetries}, NEW i \in Nat, NEW d \in Nat,
         NEW result \in TaskResult
  PROVE  LET u == ComputeUpdate(a, m, i, d, result) IN
         /\ u.status \in {Pending, Completed, DeadLetter}
         /\ u.attempt \in Nat
         /\ u = Delivery!ComputeUpdate(a, m, i, d, result)
  BY DEF Delivery!ComputeUpdate, Delivery!OnSuccess, Delivery!OnRetryableFailure,
         Delivery!OnPermanentFailure, Delivery!OnSkip, Delivery!OnTerminate, Delivery!CanRetry,
         Delivery!Update, Delivery!Pending, Delivery!Completed, Delivery!DeadLetter,
         Delivery!NoRetries, Delivery!NoInterval, Delivery!KeepNextRun,
         ComputeUpdate, OnSuccess, OnRetryableFailure, OnPermanentFailure, OnSkip,
         OnTerminate, CanRetry, Update, Pending, Completed, DeadLetter, NoRetries,
         NoInterval, KeepNextRun, TaskResult

LEMMA StatusesDiffer ==
  /\ NotCreated \notin TaskStatus /\ Pending # InProgress
  /\ InProgress \notin {Pending, Completed, DeadLetter}
  /\ {Pending, InProgress, Completed, DeadLetter} = TaskStatus
  BY DEF NotCreated, TaskStatus, Pending, InProgress, Completed, DeadLetter

LEMMA SubmitDelivers ==
  ASSUME RowsTyped, NEW t \in Tasks, Submit(t)
  PROVE  RowsTyped' /\ Delivery!Submit(t)
<1>1. UNCHANGED RunOf
  BY StatusesDiffer DEF RowsTyped, Submit, RunOf
<1>2. QED
  BY <1>1, StatusesDiffer
  DEF RowsTyped, Submit, Delivery!Submit, Delivery!NotCreated, NotCreated, Delivery!Pending, Pending

LEMMA StartDelivers ==
  ASSUME RowsTyped, NEW t \in Tasks, Start(t)
  PROVE  RowsTyped' /\ Delivery!Start(t, t)
<1>1. state[t] = Pending /\ state' = [state EXCEPT ![t] = InProgress] /\ UNCHANGED used
  BY DEF Start
<1>2. RunOf[t] = [task |-> NoTask, attempt |-> 0]
  BY <1>1, StatusesDiffer DEF RunOf
<1>3. RunOf' = [RunOf EXCEPT ![t] = [task |-> t, attempt |-> used[t]]]
  BY <1>1 DEF RunOf, RowsTyped
<1>4. RowsTyped'
  BY <1>1, StatusesDiffer DEF RowsTyped
<1>5. QED
  BY <1>1, <1>2, <1>3, <1>4
  DEF Delivery!Start, Delivery!NoJob, Delivery!Job, Delivery!Pending, Delivery!InProgress,
      Pending, InProgress

LEMMA FinishDelivers ==
  ASSUME OutcomesTyped, RowsTyped, NEW t \in Tasks, Finish(t)
  PROVE  RowsTyped' /\ Delivery!Finish(t)
<1>1. PICK result \in RunResults(t), d \in RetryDelays :
        LET u == ComputeUpdate(used[t], MaxRetries[t], Interval[t], d, result) IN
        state' = [state EXCEPT ![t] = u.status] /\ used' = [used EXCEPT ![t] = u.attempt]
  BY DEF Finish
<1> DEFINE u == ComputeUpdate(used[t], MaxRetries[t], Interval[t], d, result)
<1>2. /\ u.status \in {Pending, Completed, DeadLetter} /\ u.attempt \in Nat
      /\ u = Delivery!ComputeUpdate(used[t], MaxRetries[t], Interval[t], d, result)
  <2>1. result \in TaskResult /\ d \in Nat
    BY DEF RunResults, OutcomesTyped, TaskResult
  <2>2. used[t] \in Nat /\ MaxRetries[t] \in Nat \cup {NoRetries} /\ Interval[t] \in Nat
    BY DEF RowsTyped, OutcomesTyped
  <2>3. QED
    BY <2>1, <2>2, UpdateEnds
<1> HIDE DEF u
<1>3. state' = [state EXCEPT ![t] = u.status] /\ used' = [used EXCEPT ![t] = u.attempt]
  BY <1>1 DEF u
<1>4. RunOf[t] = [task |-> t, attempt |-> used[t]]
  BY DEF Finish, RunOf
<1>5. RunOf' = [RunOf EXCEPT ![t] = [task |-> NoTask, attempt |-> 0]]
  BY <1>2, <1>3, StatusesDiffer DEF RunOf, RowsTyped
<1>6. RunOf[t] # [task |-> NoTask, attempt |-> 0] /\ RunOf[t].task = t /\ RunOf[t].attempt = used[t]
  BY <1>4, NoTaskIsNone
<1>7. RowsTyped'
  BY <1>2, <1>3, StatusesDiffer DEF RowsTyped
<1>8. result \in Delivery!RunResults(t)
  BY DEF RunResults, Delivery!RunResults
<1>9. QED
  BY <1>2, <1>3, <1>5, <1>6, <1>7, <1>8 DEF Delivery!Finish, Delivery!NoJob, Delivery!Job

LEMMA AbandonDelivers ==
  ASSUME RowsTyped, NEW lost \in SUBSET Tasks, Abandon(lost)
  PROVE  RowsTyped' /\ Delivery!Lose(lost)
<1>1. /\ state' = [t \in Tasks |-> IF t \in lost THEN Pending ELSE state[t]]
      /\ UNCHANGED used /\ \A t \in lost : state[t] = InProgress
  BY DEF Abandon
<1>2. RunOf' = [t \in Tasks |-> IF t \in lost THEN [task |-> NoTask, attempt |-> 0] ELSE RunOf[t]]
  BY <1>1, StatusesDiffer DEF RunOf
<1>3. ASSUME NEW t \in Tasks
      PROVE  state[t] = InProgress /\ (~\E r \in Tasks : RunOf'[r].task = t) <=> t \in lost
  <2>1. ASSUME NEW r \in Tasks PROVE RunOf'[r].task = t <=> r = t /\ state[t] = InProgress /\ t \notin lost
    BY <1>2, <2>1, NoTaskIsNone DEF RunOf
  <2>2. QED
    BY <1>1, <2>1
<1>4. RowsTyped'
  BY <1>1, StatusesDiffer DEF RowsTyped
<1>5. QED
  BY <1>1, <1>2, <1>3, <1>4
  DEF Delivery!Lose, Delivery!NoJob, Delivery!Job, Delivery!Pending, Delivery!InProgress,
      Pending, InProgress

\* What holds of delivery at least once holds where the promise is kept: the
\* runs of a task one after the other, none repeated but one that was lost.
THEOREM PromiseIsADelivery ==
  ASSUME OutcomesTyped
  PROVE  Spec => Delivery!Spec
<1>1. Init => RowsTyped /\ Delivery!Init
  BY StatusesDiffer
  DEF Init, RowsTyped, RunOf, Delivery!Init, Delivery!NotCreated, NotCreated, Delivery!NoJob,
      Delivery!Job, TaskStatus
<1>2. RowsTyped /\ [Next]_<<state, used>> => RowsTyped' /\ [Delivery!Next]_<<state, used, RunOf>>
  <2> SUFFICES ASSUME RowsTyped, [Next]_<<state, used>>
               PROVE  RowsTyped' /\ [Delivery!Next]_<<state, used, RunOf>>
    OBVIOUS
  <2>1. CASE UNCHANGED <<state, used>>
    BY <2>1 DEF RowsTyped, RunOf
  <2>2. ASSUME NEW t \in Tasks, Submit(t) \/ Start(t) \/ Finish(t)
        PROVE  RowsTyped' /\ Delivery!Next
    BY <2>2, SubmitDelivers, StartDelivers, FinishDelivers DEF Delivery!Next
  <2>3. ASSUME NEW lost \in SUBSET Tasks, Abandon(lost)
        PROVE  RowsTyped' /\ Delivery!Next
    BY <2>3, AbandonDelivers DEF Delivery!Next
  <2>4. QED
    BY <2>1, <2>2, <2>3 DEF Next
<1>3. QED
  BY <1>1, <1>2, PTL DEF Spec, Delivery!Spec
=============================================================================
