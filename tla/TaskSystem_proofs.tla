------------------------- MODULE TaskSystem_proofs -------------------------
(***************************************************************************)
(* Theorems about TaskSystem, for every set of tasks, workers and permits   *)
(* and every choice of the other constants.                                 *)
(***************************************************************************)
EXTENDS TaskSystem, TLAPS, SequenceTheorems, FiniteSetTheorems

----------------------------------------------------------------------------
(* What the operators of the model return                                   *)

\* The two sequences of ids the system handles: a batch appended to the queue,
\* and the queue without its head.
LEMMA QueueTypes ==
  ASSUME NEW q \in Seq(Tasks), NEW b \in Seq(Tasks)
  PROVE  /\ q \o b \in Seq(Tasks)
         /\ q # <<>> => Head(q) \in Tasks /\ Tail(q) \in Seq(Tasks)
  OBVIOUS

\* compute_update: the new status is never IN_PROGRESS and the counter is natural.
LEMMA ComputeUpdateType ==
  ASSUME NEW a \in Nat, NEW m \in Nat \cup {NoRetries}, NEW i \in Nat, NEW d \in Nat,
         NEW result \in TaskResult
  PROVE  ComputeUpdate(a, m, i, d, result) \in TaskUpdate
  BY DEF ComputeUpdate, OnSuccess, OnRetryableFailure, OnPermanentFailure, OnSkip,
         OnTerminate, CanRetry, Update, TaskUpdate, TaskResult, Pending, Completed,
         DeadLetter, NoRetries, NoInterval, KeepNextRun

\* A page is a sequence of selected rows.
LEMMA PageType ==
  ASSUME NEW b \in Pages
  PROVE  b \in Seq(Tasks) /\ \A j \in DOMAIN b : b[j] \in Selected
<1>1. PICK n \in 0..Cardinality(Selected) : b \in [1..n -> Selected]
  BY DEF Pages
<1>2. n \in Nat
  OBVIOUS
<1>3. Selected \subseteq Tasks
  BY DEF Selected, Eligible
<1>4. b \in [1..n -> Tasks]
  BY <1>1, <1>3
<1>5. QED
  BY <1>1, <1>2, <1>4, SeqDef

LEMMA IdleTypes ==
  /\ IdlePoll \in Polls
  /\ IdleSlot \in Runs
  BY DEF IdlePoll, IdleSlot, Polls, Runs, TaskUpdate, Update, Pending, Completed, DeadLetter

\* Record updates the steps make stay inside the record types.
LEMMA RecordUpdates ==
  /\ \A p \in Polls : [p EXCEPT !.pc = "release"] \in Polls
  /\ \A b \in Seq(Tasks), a \in Nat : [pc |-> "found", batch |-> b, age |-> a] \in Polls
  /\ \A r \in Runs : [r EXCEPT !.elapsed = @ + 1] \in Runs
  BY DEF Polls, Runs

----------------------------------------------------------------------------
(* Type correctness                                                         *)

LEMMA InitType == Init => TypeOK
  BY IdleTypes, TaskSystemAssumption
  DEF Init, TypeOK, IdlePoll, IdleSlot

LEMMA PollStepType ==
  ASSUME TypeOK, NEW w \in Workers, PollStep(w)
  PROVE  TypeOK'
<1> USE DEF TypeOK, rowVars, envVars
<1>1. CASE PollAcquire(w)
  BY <1>1 DEF PollAcquire, Polls
<1>2. CASE PollFind(w)
  <2>1. PICK b \in Pages :
          poll' = [poll EXCEPT ![w] = IF b = <<>> THEN [IdlePoll EXCEPT !.pc = "release"]
                                        ELSE [pc |-> "found", batch |-> b, age |-> 0]]
    BY <1>2 DEF PollFind
  <2>2. /\ [IdlePoll EXCEPT !.pc = "release"] \in Polls
        /\ [pc |-> "found", batch |-> b, age |-> 0] \in Polls
    BY PageType, IdleTypes, RecordUpdates
  <2>3. poll' \in [Workers -> Polls]
    BY <2>1, <2>2
  <2>4. QED
    BY <1>2, <2>3 DEF PollFind
<1>3. CASE PollMark(w)
  BY <1>3 DEF PollMark, Polls, TaskStatus
<1>4. CASE PollPublish(w)
  BY <1>4, QueueTypes, IdleTypes DEF PollPublish, Polls, IdlePoll
<1>5. CASE PollFails(w)
  <2>1. [IdlePoll EXCEPT !.pc = "release"] \in Polls
    BY IdleTypes, RecordUpdates
  <2>2. poll' \in [Workers -> Polls]
    BY <1>5, <2>1 DEF PollFails
  <2>3. QED
    BY <1>5, <2>2 DEF PollFails, Fault
<1>6. CASE PollRelease(w)
  BY <1>6, IdleTypes DEF PollRelease, Polls, Fault
<1>7. QED
  BY <1>1, <1>2, <1>3, <1>4, <1>5, <1>6, PollStep(w) DEF PollStep

\* The slot of a run that has just ended.
LEMMA EndRunType ==
  ASSUME TypeOK, NEW s \in Slots, slot[s].pc = "running", NEW result \in TaskResult,
         EndRun(s, result)
  PROVE  /\ slot' \in [Slots -> Runs]
         /\ \A r \in Slots : slot'[r].pc # "idle" => slot'[r].task \in Tasks
<1> DEFINE t == slot[s].task
<1>1. t \in Tasks /\ slot[s].attempt \in Nat
  BY DEF TypeOK, Runs
<1>2. PICK d \in RetryDelays :
        slot' = [slot EXCEPT ![s] =
                   [@ EXCEPT
                      !.pc = "done", !.elapsed = 0,
                      !.update = ComputeUpdate(slot[s].attempt, MaxRetries[t], Interval[t], d, result)]]
  BY DEF EndRun
<1>3. ComputeUpdate(slot[s].attempt, MaxRetries[t], Interval[t], d, result) \in TaskUpdate
  BY <1>1, ComputeUpdateType, TaskSystemAssumption
<1>4. QED
  BY <1>1, <1>2, <1>3 DEF TypeOK, Runs

\* A run of s ends: the same step seen by every invariant about updates.
LEMMA EndRunSlot ==
  ASSUME TypeOK, NEW s \in Slots, slot[s].pc = "running", NEW result, EndRun(s, result)
  PROVE  \E d \in RetryDelays :
           /\ slot'[s].pc = "done" /\ slot'[s].task = slot[s].task
           /\ slot'[s].attempt = slot[s].attempt
           /\ slot'[s].update =
                ComputeUpdate(slot[s].attempt, MaxRetries[slot[s].task],
                              Interval[slot[s].task], d, result)
           /\ \A r \in Slots : r # s => slot'[r] = slot[r]
  BY DEF EndRun, TypeOK, Runs

LEMMA ConsumerStepType ==
  ASSUME TypeOK, NEW s \in Slots, ConsumerStep(s)
  PROVE  TypeOK'
<1> USE DEF TypeOK, rowVars, envVars
<1>1. CASE Pop(s)
  BY <1>1, QueueTypes, IdleTypes DEF Pop, Runs, IdleSlot
<1>2. CASE Fetch(s)
  BY <1>2, IdleTypes DEF Fetch, Runs, IdleSlot
<1>3. CASE HandlerReturns(s)
  <2>1. PICK result \in TaskResult : EndRun(s, result)
    BY <1>3, TaskSystemAssumption DEF HandlerReturns, Runs
  <2>2. QED
    BY <1>3, <2>1, EndRunType DEF HandlerReturns
<1>4. CASE HandlerTimesOut(s)
  BY <1>4, EndRunType DEF HandlerTimesOut, TaskResult
<1>5. CASE Persist(s)
  <2>1. slot[s].task \in Tasks /\ slot[s].update \in TaskUpdate
    BY <1>5 DEF Persist, Runs
  <2>2. slot' \in [Slots -> Runs] /\ \A r \in Slots : slot'[r].pc # "idle" => slot'[r].task \in Tasks
    BY <1>5, IdleTypes DEF Persist, IdleSlot
  <2>3. QED
    BY <1>5, <2>1, <2>2 DEF Persist, TaskUpdate, TaskStatus, KeepNextRun
<1>6. CASE RunIsLost(s)
  BY <1>6, IdleTypes DEF RunIsLost, IdleSlot, Fault
<1>7. QED
  BY <1>1, <1>2, <1>3, <1>4, <1>5, <1>6, ConsumerStep(s) DEF ConsumerStep

LEMMA WorkerStepType ==
  ASSUME TypeOK, NEW w \in Workers, WorkerStep(w)
  PROVE  TypeOK'
<1> USE DEF TypeOK, rowVars, envVars
<1>1. CASE Shutdown(w)
  <2>1. queue' \in Seq(Tasks)
    BY <1>1, QueueTypes DEF Shutdown
  <2>2. mode' \in [Workers -> {"up", "draining", "down"}] /\ faults' \in Nat
    BY <1>1 DEF Shutdown, Fault
  <2>3. QED
    BY <1>1, <2>1, <2>2 DEF Shutdown
<1>2. CASE Drained(w)
  BY <1>2 DEF Drained
<1>3. CASE Crash(w)
  BY <1>3, IdleTypes DEF Crash, DropPoll, DropSlots, IdleSlot, Fault
<1>4. CASE Restart(w)
  BY <1>4 DEF Restart
<1>5. QED
  BY <1>1, <1>2, <1>3, <1>4, WorkerStep(w) DEF WorkerStep

LEMMA TickType ==
  ASSUME TypeOK, Tick
  PROVE  TypeOK'
<1> USE DEF TypeOK, rowVars, envVars
<1>1. \A a \in Nat : Older(a) \in Nat
  BY TaskSystemAssumption DEF Older, LesserOf
<1>2. due' \in [Tasks -> Int] /\ age' \in [Tasks -> Nat]
  BY <1>1 DEF Tick
<1>3. poll' \in [Workers -> Polls]
  BY <1>1 DEF Tick, Polls
<1>4. slot' \in [Slots -> Runs] /\ \A s \in Slots : slot'[s].pc = slot[s].pc /\ slot'[s].task = slot[s].task
  <2>1. slot' = [s \in Slots |-> IF slot[s].pc = "running"
                                   THEN [slot[s] EXCEPT !.elapsed = @ + 1] ELSE slot[s]]
    BY DEF Tick
  <2>2. ASSUME NEW s \in Slots PROVE [slot[s] EXCEPT !.elapsed = @ + 1] \in Runs
    BY RecordUpdates
  <2>3. ASSUME NEW s \in Slots
        PROVE  slot'[s].pc = slot[s].pc /\ slot'[s].task = slot[s].task
    BY <2>1 DEF Runs
  <2>4. slot' \in [Slots -> Runs]
    BY <2>1, <2>2
  <2>5. QED
    BY <2>3, <2>4
<1>5. QED
  BY <1>2, <1>3, <1>4 DEF Tick

\* Every reachable state is well typed: in particular no id outside the table is
\* ever queued, polled or run, whatever crashes, expires or is lost.
THEOREM TypeCorrect == Spec => []TypeOK
<1>1. TypeOK /\ [Next]_vars => TypeOK'
  <2> SUFFICES ASSUME TypeOK, [Next]_vars PROVE TypeOK'
    OBVIOUS
  <2> USE DEF TypeOK, rowVars, envVars
  <2>1. CASE \E t \in Tasks : Schedule(t)
    BY <2>1 DEF Schedule, TaskStatus
  <2>2. CASE \E w \in Workers : PollStep(w) \/ WorkerStep(w)
    BY <2>2, PollStepType, WorkerStepType
  <2>3. CASE \E s \in Slots : ConsumerStep(s)
    BY <2>3, ConsumerStepType
  <2>4. CASE LockExpires
    BY <2>4 DEF LockExpires
  <2>5. CASE Recover
    BY <2>5 DEF Recover, TaskStatus
  <2>6. CASE QueueLost
    BY <2>6 DEF QueueLost, Fault
  <2>7. CASE Tick
    BY <2>7, TickType
  <2>8. CASE UNCHANGED vars
    BY <2>8 DEF vars
  <2>9. QED
    BY <2>1, <2>2, <2>3, <2>4, <2>5, <2>6, <2>7, <2>8 DEF Next
<1>2. QED
  BY InitType, <1>1, PTL DEF Spec

----------------------------------------------------------------------------
(* One IN_PROGRESS row per ordering key                                     *)

\* What find_pending's CTEs achieve at the moment of the query.
LEMMA SelectedRows ==
  ASSUME TypeOK, NEW t \in Selected
  PROVE  /\ t \in Tasks /\ status[t] = Pending
         /\ \A u \in Selected : SameKey(t, u) => t = u
         /\ \A u \in Tasks : status[u] = InProgress => ~SameKey(t, u)
<1>1. t \in Tasks /\ status[t] = Pending /\ ~KeyBlocked(t)
  BY DEF Selected, Eligible
<1>2. ASSUME NEW u \in Selected, SameKey(t, u) PROVE t = u
  <2>1. u \in Tasks /\ u \in Eligible /\ t \in Eligible
    BY DEF Selected, Eligible
  <2>2. t \in Nat /\ u \in Nat /\ due[t] \in Int /\ due[u] \in Int
    BY <1>1, <2>1, TaskSystemAssumption DEF TypeOK
  <2>3. CASE t # u
    <3>1. KeyOf[t] = KeyOf[u] /\ KeyOf[t] # NoKey
      BY <1>2, <2>3 DEF SameKey
    <3>2. ~Before(u, t) /\ ~Before(t, u)
      BY <1>2, <2>1, <3>1 DEF Selected
    <3>3. QED
      BY <2>2, <3>2 DEF Before
  <2>4. QED
    BY <2>3
<1>3. ASSUME NEW u \in Tasks, status[u] = InProgress PROVE ~SameKey(t, u)
  BY <1>1, <1>3 DEF SameKey, KeyBlocked, Pending, InProgress
<1>4. QED
  BY <1>1, <1>2, <1>3

\* A step that makes no row IN_PROGRESS, moves no poll and frees no poller's
\* lock keeps PollInv.
LEMMA PollInvQuiet ==
  ASSUME TypeOK, PollInv,
         \A t \in Tasks : status'[t] = InProgress => status[t] = InProgress,
         \A w \in Workers : poll'[w].pc # "idle" => lock' = w,
         \A w \in Workers : poll'[w].pc = "found" =>
           poll[w].pc = "found" /\ poll'[w].batch = poll[w].batch
  PROVE  PollInv'
<1>1. ASSUME NEW w \in Workers, poll'[w].pc = "found"
      PROVE  /\ \A t \in Elements(poll'[w].batch), u \in Tasks :
                   status'[u] = InProgress => ~SameKey(t, u)
             /\ \A t, u \in Elements(poll'[w].batch) : SameKey(t, u) => t = u
  BY <1>1 DEF PollInv
<1>2. OneInProgressPerKey'
  BY DEF PollInv, OneInProgressPerKey, SameKey
<1>3. QED
  BY <1>1, <1>2 DEF PollInv, SameKey

LEMMA InitPollInv == Init => PollInv
  BY DEF Init, PollInv, OneInProgressPerKey, IdlePoll, NotCreated, InProgress

LEMMA PollStepPollInv ==
  ASSUME TypeOK, PollInv, NEW w \in Workers, PollStep(w)
  PROVE  PollInv'
<1> USE DEF rowVars, envVars
<1>0. /\ poll \in [Workers -> Polls] /\ Free \notin Workers
      /\ \A v \in Workers : poll[v].pc # "idle" => lock = v
  BY TaskSystemAssumption DEF TypeOK, PollInv
<1>1. CASE PollAcquire(w)
  <2>1. \A v \in Workers : poll'[v].pc # "idle" => v = w
    BY <1>0, <1>1 DEF PollAcquire, Polls
  <2>2. \A v \in Workers : poll'[v].pc # "found"
    BY <1>0, <1>1, <2>1 DEF PollAcquire, Polls
  <2>3. QED
    BY <1>1, <2>1, <2>2, PollInvQuiet DEF PollAcquire
<1>2. CASE PollFind(w)
  <2>1. PICK b \in Pages :
          poll' = [poll EXCEPT ![w] = IF b = <<>> THEN [IdlePoll EXCEPT !.pc = "release"]
                                        ELSE [pc |-> "found", batch |-> b, age |-> 0]]
    BY <1>2 DEF PollFind
  <2>2. Elements(b) \subseteq Selected
    BY PageType DEF Elements
  <2>3. lock = w
    BY <1>0, <1>2 DEF PollFind
  <2>4. \A v \in Workers : v # w => poll'[v] = poll[v] /\ poll[v].pc = "idle"
    BY <1>0, <2>1, <2>3
  <2>5. poll'[w].pc = "found" => poll'[w].batch = b
    BY <1>0, <2>1 DEF IdlePoll
  <2>6. status' = status /\ lock' = lock
    BY <1>2 DEF PollFind
  <2>7. ASSUME NEW v \in Workers, poll'[v].pc = "found"
        PROVE  /\ \A t \in Elements(poll'[v].batch), u \in Tasks :
                     status'[u] = InProgress => ~SameKey(t, u)
               /\ \A t, u \in Elements(poll'[v].batch) : SameKey(t, u) => t = u
    <3>1. v = w /\ poll'[v].batch = b
      BY <2>4, <2>5, <2>7
    <3>2. QED
      BY <2>2, <2>6, <3>1, SelectedRows
  <2>8. OneInProgressPerKey'
    BY <2>6 DEF PollInv, OneInProgressPerKey, SameKey
  <2>9. QED
    BY <2>3, <2>4, <2>6, <2>7, <2>8 DEF PollInv, SameKey
<1>3. CASE PollMark(w)
  <2> DEFINE ids == Elements(poll[w].batch)
  <2>1. /\ status' = [t \in Tasks |-> IF t \in ids THEN InProgress ELSE status[t]]
        /\ lock' = lock
        /\ poll[w].pc = "found"
    BY <1>3 DEF PollMark
  <2>2. \A v \in Workers : poll'[v].pc # "found" /\ (poll'[v].pc # "idle" => v = w)
    BY <1>0, <1>3 DEF PollMark, Polls
  <2>3. /\ \A t \in ids, u \in Tasks : status[u] = InProgress => ~SameKey(t, u)
        /\ \A t, u \in ids : SameKey(t, u) => t = u
    BY <2>1 DEF PollInv
  <2>4. ASSUME NEW t \in Tasks, NEW u \in Tasks,
               status'[t] = InProgress, status'[u] = InProgress, SameKey(t, u)
        PROVE  t = u
    <3>1. SameKey(u, t)
      BY <2>4 DEF SameKey
    <3>2. t \in ids \/ status[t] = InProgress
      BY <2>1, <2>4
    <3>3. u \in ids \/ status[u] = InProgress
      BY <2>1, <2>4
    <3>4. QED
      BY <2>3, <2>4, <3>1, <3>2, <3>3 DEF PollInv, OneInProgressPerKey
  <2>5. OneInProgressPerKey'
    BY <2>4 DEF OneInProgressPerKey, SameKey
  <2>6. \A v \in Workers : poll'[v].pc # "idle" => lock' = v
    BY <1>0, <2>1, <2>2
  <2>7. QED
    BY <2>2, <2>5, <2>6 DEF PollInv
<1>4. CASE PollPublish(w)
  BY <1>0, <1>4, PollInvQuiet DEF PollPublish, IdlePoll
<1>5. CASE PollFails(w)
  BY <1>0, <1>5, PollInvQuiet DEF PollFails, IdlePoll
<1>6. CASE PollRelease(w)
  <2>1. \A v \in Workers : poll'[v].pc = "idle"
    BY <1>0, <1>6 DEF PollRelease, IdlePoll
  <2>2. QED
    BY <1>6, <2>1, PollInvQuiet DEF PollRelease
<1>7. QED
  BY <1>1, <1>2, <1>3, <1>4, <1>5, <1>6, PollStep(w) DEF PollStep

\* No result writes IN_PROGRESS.
LEMMA PersistNeverClaims ==
  ASSUME TypeOK, NEW s \in Slots, Persist(s), NEW t \in Tasks, status'[t] = InProgress
  PROVE  status[t] = InProgress
  BY DEF Persist, TypeOK, Runs, TaskUpdate, InProgress, Pending, Completed, DeadLetter

LEMMA NextPollInv ==
  ASSUME TypeOK, PollInv, PollsFitTheTTL, [Next]_vars
  PROVE  PollInv'
<1> USE DEF rowVars, envVars
<1>0. \A v \in Workers : poll[v].pc # "idle" => lock = v
  BY DEF PollInv
<1>1. CASE \E t \in Tasks : Schedule(t)
  BY <1>0, <1>1, PollInvQuiet DEF Schedule, TypeOK, Pending, InProgress
<1>2. CASE \E w \in Workers : PollStep(w)
  BY <1>2, PollStepPollInv
<1>3. CASE \E w \in Workers : WorkerStep(w)
  <2>1. PICK w \in Workers : WorkerStep(w)
    BY <1>3
  <2>2. CASE Crash(w)
    <3>1. \A v \in Workers : poll'[v] = poll[v] \/ poll'[v].pc = "idle"
      BY <2>2 DEF Crash, DropPoll, IdlePoll, TypeOK
    <3>2. QED
      BY <1>0, <2>2, <3>1, PollInvQuiet DEF Crash
  <2>3. CASE Shutdown(w) \/ Drained(w) \/ Restart(w)
    BY <1>0, <2>3, PollInvQuiet DEF Shutdown, Drained, Restart
  <2>4. QED
    BY <2>1, <2>2, <2>3 DEF WorkerStep
<1>4. CASE \E s \in Slots : ConsumerStep(s)
  <2>1. PICK s \in Slots : ConsumerStep(s)
    BY <1>4
  <2>2. poll' = poll /\ lock' = lock
    BY <2>1 DEF ConsumerStep, Pop, Fetch, HandlerReturns, HandlerTimesOut, Persist, RunIsLost
  <2>3. Persist(s) \/ status' = status
    BY <2>1 DEF ConsumerStep, Pop, Fetch, HandlerReturns, HandlerTimesOut, RunIsLost
  <2>4. QED
    BY <1>0, <2>2, <2>3, PersistNeverClaims, PollInvQuiet
<1>5. CASE LockExpires
  <2>1. \A v \in Workers : poll[v].pc = "idle"
    BY <1>0, <1>5 DEF LockExpires, PollsFitTheTTL, TypeOK
  <2>2. QED
    BY <1>5, <2>1, PollInvQuiet DEF LockExpires
<1>6. CASE Recover
  BY <1>0, <1>6, PollInvQuiet DEF Recover, Pending, InProgress, TypeOK
<1>7. CASE QueueLost
  BY <1>0, <1>7, PollInvQuiet DEF QueueLost
<1>8. CASE Tick
  <2>1. \A v \in Workers : poll'[v].pc = poll[v].pc /\ poll'[v].batch = poll[v].batch
    BY <1>8 DEF Tick, TypeOK, Polls
  <2>2. QED
    BY <1>0, <1>8, <2>1, PollInvQuiet DEF Tick
<1>9. CASE UNCHANGED vars
  BY <1>0, <1>9, PollInvQuiet DEF vars
<1>10. QED
  BY <1>1, <1>2, <1>3, <1>4, <1>5, <1>6, <1>7, <1>8, <1>9 DEF Next

\* As long as no poll outlives its lock, tasks that share an ordering key are
\* claimed one at a time, however late, lost or repeated anything else is: the
\* query and the unconditional mark are made atomic by the lock.
THEOREM KeysAreExclusive == PollsFitTheTTL /\ Spec => []OneInProgressPerKey
<1>1. TypeOK /\ PollInv /\ PollsFitTheTTL /\ [Next]_vars => PollInv'
  BY NextPollInv
<1>2. PollInv => OneInProgressPerKey
  BY DEF PollInv
<1>3. CASE PollsFitTheTTL
  BY InitPollInv, <1>1, <1>2, <1>3, TypeCorrect, PTL DEF Spec
<1>4. QED
  BY <1>3

----------------------------------------------------------------------------
(* Where polls do outlive their lock                                        *)

\* FiniteSetTheorems on what follows: a set with at most one element more.
LEMMA OneMore ==
  ASSUME NEW S, NEW T, NEW x, IsFiniteSet(S), T \subseteq S \cup {x}
  PROVE  /\ IsFiniteSet(T) /\ Cardinality(T) \in Nat /\ Cardinality(S) \in Nat
         /\ Cardinality(T) <= Cardinality(S) + 1
         /\ T \subseteq S => Cardinality(T) <= Cardinality(S)
<1>0. \A U : IsFiniteSet(U) => Cardinality(U) \in Nat
  BY FS_CardinalityType
<1>1. IsFiniteSet(S \cup {x}) /\ Cardinality(S \cup {x}) <= Cardinality(S) + 1
  <2>1. IsFiniteSet(S \cup {x}) /\ Cardinality(S \cup {x}) =
          IF x \in S THEN Cardinality(S) ELSE Cardinality(S) + 1
    BY FS_AddElement
  <2>2. QED
    BY <1>0, <2>1
<1>2. IsFiniteSet(T) /\ Cardinality(T) <= Cardinality(S \cup {x})
  BY <1>1, FS_Subset
<1>3. T \subseteq S => Cardinality(T) <= Cardinality(S)
  BY FS_Subset
<1>4. /\ Cardinality(T) \in Nat /\ Cardinality(S) \in Nat
      /\ Cardinality(S \cup {x}) \in Nat
  BY <1>0, <1>1, <1>2
<1>5. QED
  BY <1>1, <1>2, <1>3, <1>4

\* The sets that OverrunInv counts.
LEMMA CountedSets ==
  /\ IsFiniteSet(Overstaying) /\ Cardinality(Overstaying) \in Nat
  /\ IsFiniteSet(Overstaying') /\ Cardinality(Overstaying') \in Nat
  /\ \A k \in Keys :
       /\ IsFiniteSet(InProgressRows(k)) /\ Cardinality(InProgressRows(k)) \in Nat
       /\ IsFiniteSet(AboutToMark(k)) /\ Cardinality(AboutToMark(k)) \in Nat
       /\ IsFiniteSet(InProgressRows(k)') /\ Cardinality(InProgressRows(k)') \in Nat
       /\ IsFiniteSet(AboutToMark(k)') /\ Cardinality(AboutToMark(k)') \in Nat
<1>1. /\ Overstaying \subseteq Workers /\ Overstaying' \subseteq Workers
      /\ \A k \in Keys : /\ InProgressRows(k) \subseteq Tasks /\ InProgressRows(k)' \subseteq Tasks
                         /\ AboutToMark(k) \subseteq Workers /\ AboutToMark(k)' \subseteq Workers
  BY DEF Overstaying, InProgressRows, AboutToMark
<1>2. IsFiniteSet(Tasks) /\ IsFiniteSet(Workers)
  BY TaskSystemAssumption
<1>3. \A S : S \subseteq Tasks \/ S \subseteq Workers => IsFiniteSet(S)
  BY <1>2, FS_Subset
<1>4. \A S : IsFiniteSet(S) => Cardinality(S) \in Nat
  BY FS_CardinalityType
<1>5. QED
  BY <1>1, <1>3, <1>4

\* A step after which nobody new is inside without the lock, about to mark a
\* row of a key, or IN_PROGRESS.
LEMMA OverrunQuiet ==
  ASSUME TypeOK, OverrunInv, overruns' \in Nat, overruns' >= overruns,
         Cardinality(Overstaying') <= overruns',
         \A t \in Tasks : status'[t] = InProgress => status[t] = InProgress,
         \A w \in Workers : poll'[w].pc = "found" =>
           poll[w].pc = "found" /\ poll'[w].batch = poll[w].batch
  PROVE  OverrunInv'
<1>1. ASSUME NEW k \in Keys
      PROVE  /\ Cardinality(InProgressRows(k)') <= Cardinality(InProgressRows(k))
             /\ Cardinality(AboutToMark(k)') <= Cardinality(AboutToMark(k))
  <2>1. InProgressRows(k)' \subseteq InProgressRows(k) /\ AboutToMark(k)' \subseteq AboutToMark(k)
    BY DEF InProgressRows, AboutToMark
  <2>2. QED
    BY <2>1, CountedSets, FS_Subset
<1>2. ASSUME NEW k \in Keys
      PROVE  Cardinality(InProgressRows(k)') + Cardinality(AboutToMark(k)') <= 1 + overruns'
  BY <1>1, CountedSets DEF OverrunInv, TypeOK
<1>3. \A w \in Workers : poll'[w].pc = "found" =>
        \A t, u \in Elements(poll'[w].batch) : SameKey(t, u) => t = u
  BY DEF OverrunInv
<1>4. QED
  BY <1>2, <1>3 DEF OverrunInv, SameKey

\* A step that lets nobody stay inside whose lock has passed on in it.
LEMMA OverstayingQuiet ==
  ASSUME TypeOK, OverrunInv, overruns' = overruns,
         \A w \in Workers : poll'[w].pc # "idle" /\ lock' # w =>
                            poll[w].pc # "idle" /\ lock # w
  PROVE  Cardinality(Overstaying') <= overruns'
<1>0. overruns \in Nat /\ Cardinality(Overstaying) <= overruns
  BY DEF OverrunInv, TypeOK
<1>1. Overstaying' \subseteq Overstaying
  <2>1. ASSUME NEW w \in Workers, poll'[w].pc # "idle", lock' # w
        PROVE  w \in Overstaying
    BY <2>1 DEF Overstaying
  <2>2. QED
    BY <2>1 DEF Overstaying
<1>2. Cardinality(Overstaying') <= Cardinality(Overstaying)
  BY <1>1, CountedSets, FS_Subset
<1>3. QED
  BY <1>0, <1>2, CountedSets

LEMMA PollStepOverrun ==
  ASSUME TypeOK, OverrunInv, NEW w \in Workers, PollStep(w)
  PROVE  OverrunInv'
<1> USE DEF rowVars, envVars
<1>0. poll \in [Workers -> Polls] /\ Free \notin Workers /\ overruns \in Nat
  BY TaskSystemAssumption DEF TypeOK
<1>1. overruns' = overruns
  BY DEF PollStep, PollAcquire, PollFind, PollMark, PollPublish, PollFails, PollRelease
<1>2. Cardinality(Overstaying') <= overruns'
  <2>1. \A v \in Workers : v # w => poll'[v] = poll[v]
    BY <1>0 DEF PollStep, PollAcquire, PollFind, PollMark, PollPublish, PollFails, PollRelease
  <2>2. CASE PollAcquire(w)
    BY <1>0, <1>1, <2>1, <2>2, OverstayingQuiet DEF PollAcquire
  <2>3. CASE PollRelease(w)
    BY <1>0, <1>1, <2>1, <2>3, OverstayingQuiet DEF PollRelease, IdlePoll
  <2>4. CASE PollFind(w) \/ PollMark(w) \/ PollPublish(w) \/ PollFails(w)
    <3>1. poll[w].pc # "idle" /\ lock' = lock
      BY <2>4 DEF PollFind, PollMark, PollPublish, PollFails
    <3>2. QED
      BY <1>1, <2>1, <3>1, OverstayingQuiet
  <2>5. QED
    BY <2>2, <2>3, <2>4, PollStep(w) DEF PollStep
<1>3. CASE PollFind(w)
  <2>1. PICK b \in Pages :
          poll' = [poll EXCEPT ![w] = IF b = <<>> THEN [IdlePoll EXCEPT !.pc = "release"]
                                        ELSE [pc |-> "found", batch |-> b, age |-> 0]]
    BY <1>3 DEF PollFind
  <2>2. Elements(b) \subseteq Selected
    BY PageType DEF Elements
  <2>3. /\ status' = status
        /\ \A v \in Workers : v # w => poll'[v] = poll[v]
        /\ poll'[w].pc = "found" => poll'[w].batch = b
    BY <1>0, <1>3, <2>1 DEF PollFind, IdlePoll
  <2>4. \A v \in Workers : poll'[v].pc = "found" =>
          \A t, u \in Elements(poll'[v].batch) : SameKey(t, u) => t = u
    BY <2>2, <2>3, SelectedRows DEF OverrunInv
  <2>5. ASSUME NEW k \in Keys
        PROVE  Cardinality(InProgressRows(k)') + Cardinality(AboutToMark(k)') <= 1 + overruns'
    <3>1. CASE w \in AboutToMark(k)'
      <4>1. PICK t \in Elements(b) : KeyOf[t] = k
        BY <2>3, <3>1 DEF AboutToMark
      <4>2. InProgressRows(k)' = {}
        <5>1. t \in Tasks /\ \A u \in Tasks : status[u] = InProgress => ~SameKey(t, u)
          BY <2>2, SelectedRows
        <5>2. KeyOf[t] # NoKey
          BY <4>1, TaskSystemAssumption
        <5>3. QED
          BY <2>3, <4>1, <5>1, <5>2 DEF InProgressRows, SameKey
      <4>3. AboutToMark(k)' \subseteq Overstaying' \cup {lock'}
        BY DEF AboutToMark, Overstaying
      <4>4. Cardinality(AboutToMark(k)') <= Cardinality(Overstaying') + 1
        BY <4>3, CountedSets, OneMore
      <4>5. Cardinality(InProgressRows(k)') = 0
        BY <4>2, FS_EmptySet
      <4>6. QED
        BY <1>0, <1>1, <1>2, <4>4, <4>5, CountedSets
    <3>2. CASE w \notin AboutToMark(k)'
      <4>1. InProgressRows(k)' = InProgressRows(k) /\ AboutToMark(k)' \subseteq AboutToMark(k)
        BY <2>3, <3>2 DEF AboutToMark, InProgressRows
      <4>2. Cardinality(AboutToMark(k)') <= Cardinality(AboutToMark(k))
        BY <4>1, CountedSets, FS_Subset
      <4>3. QED
        BY <1>0, <1>1, <4>1, <4>2, CountedSets DEF OverrunInv
    <3>3. QED
      BY <3>1, <3>2
  <2>6. QED
    BY <1>2, <2>4, <2>5 DEF OverrunInv, SameKey
<1>4. CASE PollMark(w)
  <2> DEFINE ids == Elements(poll[w].batch)
  <2>1. /\ status' = [t \in Tasks |-> IF t \in ids THEN InProgress ELSE status[t]]
        /\ poll[w].pc = "found"
        /\ poll'[w].pc = "marked"
        /\ \A v \in Workers : v # w => poll'[v] = poll[v]
    BY <1>0, <1>4 DEF PollMark, Polls
  <2>2. \A v \in Workers : poll'[v].pc = "found" =>
          \A t, u \in Elements(poll'[v].batch) : SameKey(t, u) => t = u
    BY <2>1 DEF OverrunInv
  <2>3. ASSUME NEW k \in Keys
        PROVE  Cardinality(InProgressRows(k)') + Cardinality(AboutToMark(k)') <= 1 + overruns'
    <3>1. CASE w \in AboutToMark(k)
      <4>1. PICK t \in ids : KeyOf[t] = k
        BY <3>1 DEF AboutToMark
      <4>2. KeyOf[t] # NoKey /\ \A u \in ids : SameKey(t, u) => t = u
        BY <2>1, <4>1, TaskSystemAssumption DEF OverrunInv
      <4>3. InProgressRows(k)' \subseteq InProgressRows(k) \cup {t}
        BY <2>1, <4>1, <4>2 DEF InProgressRows, SameKey
      <4>4. Cardinality(InProgressRows(k)') <= Cardinality(InProgressRows(k)) + 1
        BY <4>3, CountedSets, OneMore
      <4>5. AboutToMark(k)' \subseteq AboutToMark(k) \ {w}
        BY <2>1 DEF AboutToMark
      <4>6. Cardinality(AboutToMark(k)') <= Cardinality(AboutToMark(k)) - 1
        <5>1. /\ IsFiniteSet(AboutToMark(k) \ {w})
              /\ Cardinality(AboutToMark(k) \ {w}) = Cardinality(AboutToMark(k)) - 1
          BY <3>1, CountedSets, FS_RemoveElement
        <5>2. QED
          BY <4>5, <5>1, FS_Subset
      <4>7. QED
        BY <1>0, <1>1, <4>4, <4>6, CountedSets DEF OverrunInv
    <3>2. CASE w \notin AboutToMark(k)
      <4>1. \A t \in ids : KeyOf[t] # k
        BY <2>1, <3>2 DEF AboutToMark
      <4>2. InProgressRows(k)' \subseteq InProgressRows(k) /\ AboutToMark(k)' \subseteq AboutToMark(k)
        BY <2>1, <4>1 DEF InProgressRows, AboutToMark
      <4>3. /\ Cardinality(InProgressRows(k)') <= Cardinality(InProgressRows(k))
            /\ Cardinality(AboutToMark(k)') <= Cardinality(AboutToMark(k))
        BY <4>2, CountedSets, FS_Subset
      <4>4. QED
        BY <1>0, <1>1, <4>3, CountedSets DEF OverrunInv
    <3>3. QED
      BY <3>1, <3>2
  <2>4. QED
    BY <1>2, <2>2, <2>3 DEF OverrunInv, SameKey
<1>5. CASE PollAcquire(w) \/ PollPublish(w) \/ PollFails(w) \/ PollRelease(w)
  <2>1. /\ status' = status
        /\ \A v \in Workers : v # w => poll'[v] = poll[v]
        /\ poll'[w].pc # "found"
    BY <1>0, <1>5 DEF PollAcquire, PollPublish, PollFails, PollRelease, IdlePoll, Polls
  <2>2. QED
    BY <1>0, <1>1, <1>2, <2>1, OverrunQuiet
<1>6. QED
  BY <1>3, <1>4, <1>5, PollStep(w) DEF PollStep

LEMMA NextOverrun ==
  ASSUME TypeOK, TypeOK', OverrunInv, [Next]_vars
  PROVE  OverrunInv'
<1> USE DEF rowVars, envVars
<1>0. overruns \in Nat /\ overruns' \in Nat /\ poll \in [Workers -> Polls]
  BY DEF TypeOK
<1>1. CASE \E w \in Workers : PollStep(w)
  BY <1>1, PollStepOverrun
<1>2. CASE LockExpires
  <2>1. /\ overruns' >= overruns
        /\ poll' = poll /\ status' = status
    BY <1>0, <1>2 DEF LockExpires
  <2>2. Cardinality(Overstaying') <= overruns'
    <3>1. CASE poll[lock].pc = "idle"
      BY <1>0, <1>2, <3>1, OverstayingQuiet DEF LockExpires
    <3>2. CASE poll[lock].pc # "idle"
      <4>1. Overstaying' \subseteq Overstaying \cup {lock} /\ overruns' = overruns + 1
        BY <1>0, <1>2, <3>2 DEF LockExpires, Overstaying
      <4>2. Cardinality(Overstaying') <= Cardinality(Overstaying) + 1
        BY <4>1, CountedSets, OneMore
      <4>3. QED
        BY <1>0, <4>1, <4>2, CountedSets DEF OverrunInv
    <3>3. QED
      BY <3>1, <3>2
  <2>3. QED
    BY <1>0, <2>1, <2>2, OverrunQuiet
<1>3. CASE ~LockExpires /\ ~\E w \in Workers : PollStep(w)
  <2>1. /\ overruns' = overruns /\ lock' = lock
        /\ \A v \in Workers :
             \/ poll'[v].pc = poll[v].pc /\ poll'[v].batch = poll[v].batch
             \/ poll'[v].pc = "idle"
    <3>1. CASE \E w \in Workers : WorkerStep(w)
      BY <3>1, <1>0 DEF WorkerStep, Crash, Shutdown, Drained, Restart, DropPoll, IdlePoll
    <3>2. CASE Tick
      BY <3>2, <1>0 DEF Tick, Polls
    <3>3. CASE \/ \E t \in Tasks : Schedule(t)
               \/ \E s \in Slots : ConsumerStep(s)
               \/ Recover \/ QueueLost \/ UNCHANGED vars
      BY <3>3 DEF Schedule, ConsumerStep, Pop, Fetch, HandlerReturns, HandlerTimesOut,
                  Persist, RunIsLost, Recover, QueueLost, vars
    <3>4. QED
      BY <1>3, <3>1, <3>2, <3>3 DEF Next
  <2>2. \A t \in Tasks : status'[t] = InProgress => status[t] = InProgress
    <3>1. CASE \E s \in Slots : Persist(s)
      BY <3>1, PersistNeverClaims
    <3>2. CASE \E t \in Tasks : Schedule(t)
      BY <3>2 DEF Schedule, TypeOK, Pending, InProgress
    <3>3. CASE Recover
      BY <3>3 DEF Recover, Pending, InProgress
    <3>4. CASE ~Recover /\ ~(\E t \in Tasks : Schedule(t)) /\ ~\E s \in Slots : Persist(s)
      <4>1. status' = status
        BY <1>3, <3>4 DEF Next, WorkerStep, Crash, Shutdown, Drained, Restart, Tick,
             ConsumerStep, Pop, Fetch, HandlerReturns, HandlerTimesOut, RunIsLost, QueueLost, vars
      <4>2. QED
        BY <4>1
    <3>5. QED
      BY <3>1, <3>2, <3>3, <3>4
  <2>3. Cardinality(Overstaying') <= overruns'
    BY <2>1, OverstayingQuiet
  <2>4. QED
    BY <1>0, <2>1, <2>2, <2>3, OverrunQuiet
<1>4. QED
  BY <1>1, <1>2, <1>3

\* With no assumption at all: each poll that outlives its lock costs a key at
\* most one more IN_PROGRESS row.  KeysAreExclusive is the case of none.
THEOREM OverrunsAddOneEach == Spec => []KeysWithinOverruns
<1>1. Init => OverrunInv
  <2> SUFFICES ASSUME Init PROVE OverrunInv
    OBVIOUS
  <2>1. Overstaying = {} /\ \A k \in Keys : InProgressRows(k) = {} /\ AboutToMark(k) = {}
    BY DEF Init, Overstaying, InProgressRows, AboutToMark, IdlePoll, NotCreated, InProgress
  <2>2. Cardinality(Overstaying) = 0 /\ \A k \in Keys :
          Cardinality(InProgressRows(k)) = 0 /\ Cardinality(AboutToMark(k)) = 0
    BY <2>1, FS_EmptySet
  <2>3. QED
    BY <2>2 DEF Init, OverrunInv, IdlePoll
<1>2. TypeOK /\ TypeOK' /\ OverrunInv /\ [Next]_vars => OverrunInv'
  BY NextOverrun
<1>3. TypeOK /\ OverrunInv => KeysWithinOverruns
  BY CountedSets DEF OverrunInv, KeysWithinOverruns, TypeOK
<1>4. QED
  BY <1>1, <1>2, <1>3, TypeCorrect, PTL DEF Spec

----------------------------------------------------------------------------
(* One live run per task                                                    *)

LEMMA TailOfDistinct ==
  ASSUME NEW q \in Seq(Tasks), q # <<>>, Distinct(q)
  PROVE  /\ Distinct(Tail(q))
         /\ Head(q) \in Elements(q)
         /\ Elements(Tail(q)) \subseteq Elements(q)
         /\ Head(q) \notin Elements(Tail(q))
<1>1. /\ Len(q) \in Nat /\ Len(q) >= 1 /\ DOMAIN q = 1..Len(q)
      /\ Tail(q) \in Seq(Tasks) /\ Len(Tail(q)) = Len(q) - 1
      /\ DOMAIN Tail(q) = 1..(Len(q) - 1) /\ Head(q) = q[1]
  OBVIOUS
<1>2. \A i \in 1..(Len(q) - 1) : Tail(q)[i] = q[i + 1] /\ i + 1 \in 1..Len(q) /\ i + 1 # 1
  BY <1>1
<1>3. QED
  BY <1>1, <1>2 DEF Distinct, Elements

LEMMA ConcatOfDistinct ==
  ASSUME NEW q \in Seq(Tasks), NEW b \in Seq(Tasks), Distinct(q), Distinct(b),
         Elements(b) \cap Elements(q) = {}
  PROVE  /\ Distinct(q \o b)
         /\ Elements(q \o b) = Elements(q) \cup Elements(b)
<1> DEFINE c == q \o b
<1>1. /\ DOMAIN q = 1..Len(q) /\ DOMAIN b = 1..Len(b) /\ DOMAIN c = 1..(Len(q) + Len(b))
      /\ Len(q) \in Nat /\ Len(b) \in Nat
  OBVIOUS
<1>2. \A i \in DOMAIN c :
        c[i] = IF i <= Len(q) THEN q[i] ELSE b[i - Len(q)]
  BY <1>1
<1>3. ASSUME NEW i \in DOMAIN c
      PROVE  \/ i \in DOMAIN q /\ c[i] = q[i] /\ c[i] \in Elements(q)
             \/ i > Len(q) /\ i - Len(q) \in DOMAIN b /\ c[i] = b[i - Len(q)] /\ c[i] \in Elements(b)
  BY <1>1, <1>2 DEF Elements
<1>4. Distinct(c)
  <2> SUFFICES ASSUME NEW i \in DOMAIN c, NEW j \in DOMAIN c, c[i] = c[j] PROVE i = j
    BY DEF Distinct
  <2>1. i \in Int /\ j \in Int /\ Len(q) \in Int
    BY <1>1
  <2>2. CASE i \in DOMAIN q /\ c[i] = q[i] /\ c[i] \in Elements(q)
    BY <1>3, <2>2 DEF Distinct
  <2>3. CASE i > Len(q) /\ i - Len(q) \in DOMAIN b /\ c[i] = b[i - Len(q)] /\ c[i] \in Elements(b)
    <3>1. j - Len(q) \in DOMAIN b /\ c[j] = b[j - Len(q)]
      BY <1>3, <2>3
    <3>2. i - Len(q) = j - Len(q)
      BY <2>3, <3>1 DEF Distinct
    <3>3. QED
      BY <2>1, <3>2
  <2>4. QED
    BY <1>3, <2>2, <2>3
<1>5. ASSUME NEW x \in Elements(q) \cup Elements(b) PROVE x \in Elements(c)
  <2>1. CASE x \in Elements(q)
    <3>1. PICK i \in DOMAIN q : x = q[i]
      BY <2>1 DEF Elements
    <3>2. i \in DOMAIN c /\ c[i] = x
      BY <1>1, <1>2, <3>1
    <3>3. QED
      BY <3>2 DEF Elements
  <2>2. CASE x \in Elements(b)
    <3>1. PICK i \in DOMAIN b : x = b[i]
      BY <2>2 DEF Elements
    <3>2. i + Len(q) \in DOMAIN c /\ c[i + Len(q)] = x
      BY <1>1, <1>2, <3>1
    <3>3. QED
      BY <3>2 DEF Elements
  <2>3. QED
    BY <2>1, <2>2
<1>6. Elements(c) \subseteq Elements(q) \cup Elements(b)
  BY <1>3 DEF Elements
<1>7. QED
  BY <1>4, <1>5, <1>6

\* Whatever holds an id - the queue, a marked batch, a permit - its row is
\* IN_PROGRESS and not stale.
LEMMA HeldRows ==
  ASSUME TypeOK, HoldersAreFresh, TimeoutsBelowStale
  PROVE  /\ \A t \in Elements(queue) :
              t \in Tasks /\ status[t] = InProgress /\ age[t] <= MaxWait /\ ~IsStale(t)
         /\ \A w \in Workers : Marked(w) => \A t \in Elements(poll[w].batch) :
              t \in Tasks /\ status[t] = InProgress /\ age[t] <= MaxWait /\ ~IsStale(t)
         /\ \A s \in Slots : Busy(s) =>
              slot[s].task \in Tasks /\ status[slot[s].task] = InProgress /\ ~IsStale(slot[s].task)
<1>1. ASSUME NEW t \in Tasks, NEW extra \in Nat, extra <= Timeout[t], age[t] <= MaxWait + extra
      PROVE  ~IsStale(t)
  <2>1. age[t] \in Nat /\ MaxWait \in Nat /\ Timeout[t] \in Nat /\ Stale \in Nat
    BY TaskSystemAssumption DEF TypeOK
  <2>2. MaxWait + Timeout[t] <= Stale
    BY DEF TimeoutsBelowStale
  <2>3. QED
    BY <1>1, <2>1, <2>2 DEF IsStale
<1>2. ASSUME NEW t \in Waiting
      PROVE  t \in Tasks /\ status[t] = InProgress /\ age[t] <= MaxWait /\ ~IsStale(t)
  <2>1. t \in Tasks
    BY <1>2 DEF Waiting
  <2>2. status[t] = InProgress /\ age[t] <= MaxWait
    BY <1>2 DEF HoldersAreFresh
  <2>3. age[t] <= MaxWait + 0 /\ 0 <= Timeout[t]
    BY <2>1, <2>2, TaskSystemAssumption DEF TypeOK
  <2>4. QED
    BY <1>1, <2>1, <2>2, <2>3
<1>3. \A t \in Elements(queue) : t \in Waiting
  BY DEF Waiting, Elements, TypeOK
<1>4. \A w \in Workers : Marked(w) => \A t \in Elements(poll[w].batch) : t \in Waiting
  BY DEF Waiting, Marked, Elements, TypeOK, Polls
<1>5. ASSUME NEW s \in Slots, Busy(s)
      PROVE  slot[s].task \in Tasks /\ status[slot[s].task] = InProgress /\ ~IsStale(slot[s].task)
  <2>1. slot[s].pc = "popped" \/ Live(s)
    BY <1>5 DEF Busy, Live, TypeOK, Runs
  <2>2. CASE slot[s].pc = "popped"
    BY <1>2, <1>5, <2>2 DEF Waiting, TypeOK, Busy
  <2>3. CASE Live(s)
    <3>1. slot[s].task \in Tasks
      BY <1>5 DEF Busy, TypeOK
    <3>2. Timeout[slot[s].task] \in Nat
      BY <3>1, TaskSystemAssumption
    <3>3. QED
      BY <1>1, <2>3, <3>1, <3>2 DEF HoldersAreFresh
  <2>4. QED
    BY <2>1, <2>2, <2>3
<1>6. QED
  BY <1>2, <1>3, <1>4, <1>5

\* The two invariants together; each step below keeps both.
HolderInv == OneHolder /\ HoldersAreFresh

LEMMA InitHolderInv == Init => HolderInv
  BY DEF Init, HolderInv, OneHolder, HoldersAreFresh, Waiting, Marked, Busy, Live, Distinct,
         Elements, IdlePoll, IdleSlot

\* A step that writes no row and at most drops ids, batches and permits.
LEMMA HolderInvDrop ==
  ASSUME TypeOK, HolderInv,
         status' = status, attempt' = attempt, age' = age,
         Distinct(queue'), Elements(queue') \subseteq Elements(queue),
         \A w \in Workers : poll'[w] = poll[w] \/ poll'[w].pc \notin {"found", "marked"},
         \A s \in Slots : slot'[s] = slot[s] \/ slot'[s].pc = "idle"
  PROVE  HolderInv'
<1>1. OneHolder'
  BY DEF HolderInv, OneHolder, Marked, Busy
<1>2. Waiting' \subseteq Waiting
  BY DEF Waiting, Marked
<1>3. HoldersAreFresh'
  BY <1>2 DEF HolderInv, HoldersAreFresh, Live
<1>4. QED
  BY <1>1, <1>3 DEF HolderInv

\* A page has no id twice: its order is strict.
LEMMA PageDistinct ==
  ASSUME TypeOK, NEW b \in Pages
  PROVE  Distinct(b)
<1>1. /\ b \in Seq(Tasks)
      /\ \A i, j \in DOMAIN b : i < j => Before(b[i], b[j])
  BY PageType DEF Pages, IsPage
<1>2. SUFFICES ASSUME NEW i \in DOMAIN b, NEW j \in DOMAIN b, b[i] = b[j] PROVE i = j
  BY DEF Distinct
<1>3. i \in Int /\ j \in Int /\ b[i] \in Nat /\ due[b[i]] \in Int
  <2>1. DOMAIN b = 1..Len(b) /\ Len(b) \in Nat /\ b[i] \in Tasks
    BY <1>1
  <2>2. i \in Int /\ j \in Int
    BY <2>1
  <2>3. QED
    BY <2>1, <2>2, TaskSystemAssumption DEF TypeOK
<1>4. ~Before(b[i], b[j]) /\ ~Before(b[j], b[i])
  BY <1>2, <1>3 DEF Before
<1>5. QED
  BY <1>1, <1>3, <1>4

LEMMA PollStepHolderInv ==
  ASSUME TypeOK, PollInv, HolderInv, TimeoutsBelowStale, NEW w \in Workers, PollStep(w)
  PROVE  HolderInv'
<1> USE DEF rowVars, envVars
<1>0. /\ poll \in [Workers -> Polls]
      /\ \A v \in Workers : poll[v].pc # "idle" => lock = v
      /\ Distinct(queue)
  BY DEF TypeOK, PollInv, HolderInv, OneHolder
<1>1. CASE PollAcquire(w)
  BY <1>0, <1>1, HolderInvDrop DEF PollAcquire, Polls
<1>2. CASE PollFind(w)
  <2>1. PICK b \in Pages :
          poll' = [poll EXCEPT ![w] = IF b = <<>> THEN [IdlePoll EXCEPT !.pc = "release"]
                                        ELSE [pc |-> "found", batch |-> b, age |-> 0]]
    BY <1>2 DEF PollFind
  <2>2. UNCHANGED <<status, attempt, age, queue, slot>>
    BY <1>2 DEF PollFind
  <2>3. \A v \in Workers : poll'[v] = poll[v] \/ (v = w /\ poll'[v].pc \in {"found", "release"})
    BY <1>0, <2>1 DEF IdlePoll
  <2>4. poll'[w].pc = "found" => poll'[w].batch = b /\ poll'[w].age = 0
    BY <1>0, <2>1 DEF IdlePoll
  <2>5. Distinct(b) /\ \A t \in Elements(b) : status[t] = Pending
    BY PageDistinct, PageType, SelectedRows DEF Elements
  <2>6. OneHolder'
    BY <2>2, <2>3, <2>4, <2>5 DEF HolderInv, OneHolder, Marked, Busy
  <2>7. Waiting' \subseteq Waiting
    BY <2>2, <2>3 DEF Waiting, Marked
  <2>8. HoldersAreFresh'
    BY <2>2, <2>3, <2>4, <2>5, <2>7, TaskSystemAssumption DEF HolderInv, HoldersAreFresh, Live
  <2>9. QED
    BY <2>6, <2>8 DEF HolderInv
<1>3. CASE PollMark(w)
  <2> DEFINE ids == Elements(poll[w].batch)
  <2>1. /\ poll[w].pc = "found"
        /\ status' = [t \in Tasks |-> IF t \in ids THEN InProgress ELSE status[t]]
        /\ age' = [t \in Tasks |-> IF t \in ids THEN poll[w].age ELSE age[t]]
        /\ UNCHANGED <<attempt, queue, slot>>
    BY <1>3 DEF PollMark
  <2>2. /\ poll'[w].pc = "marked" /\ poll'[w].batch = poll[w].batch
        /\ \A v \in Workers : v # w => poll'[v] = poll[v] /\ poll[v].pc = "idle"
    BY <1>0, <1>3 DEF PollMark, Polls
  <2>3. /\ ids \subseteq Tasks
        /\ \A t \in ids : status[t] = Pending
        /\ poll[w].age <= MaxWait
    BY <1>0, <2>1 DEF HolderInv, HoldersAreFresh, Elements, Polls
  <2>4. /\ ids \cap Elements(queue) = {}
        /\ \A s \in Slots : Busy(s) => slot[s].task \notin ids
    BY <2>3, HeldRows DEF HolderInv, Pending, InProgress
  <2>5. OneHolder'
    BY <2>1, <2>2, <2>4 DEF HolderInv, OneHolder, Marked, Busy
  <2>6. \A t \in Waiting' : status'[t] = InProgress /\ age'[t] <= MaxWait
    <3>1. ASSUME NEW t \in Tasks, t \notin ids, t \in Waiting' PROVE t \in Waiting
      BY <2>1, <2>2, <3>1 DEF Waiting, Marked
    <3>2. QED
      BY <2>1, <2>3, <3>1 DEF HolderInv, HoldersAreFresh, Waiting
  <2>7. ASSUME NEW s \in Slots, Busy(s)
        PROVE  slot[s].task \in Tasks /\ slot[s].task \notin ids
               /\ status'[slot[s].task] = status[slot[s].task]
               /\ age'[slot[s].task] = age[slot[s].task]
    BY <2>1, <2>4, <2>7 DEF Busy, TypeOK
  <2>8. HoldersAreFresh'
    <3>1. \A v \in Workers : poll'[v].pc # "found"
      BY <2>2
    <3>2. QED
      BY <2>1, <2>6, <2>7, <3>1 DEF HolderInv, HoldersAreFresh, Live, Busy
  <2>9. QED
    BY <2>5, <2>8 DEF HolderInv
<1>4. CASE PollPublish(w)
  <2> DEFINE b == poll[w].batch
  <2>1. /\ Marked(w) /\ queue' = queue \o b
        /\ UNCHANGED <<status, attempt, age, slot>>
    BY <1>4 DEF PollPublish, Marked
  <2>2. /\ poll'[w].pc = "release"
        /\ \A v \in Workers : v # w => poll'[v] = poll[v] /\ poll[v].pc = "idle"
    BY <1>0, <1>4 DEF PollPublish, IdlePoll
  <2>3. /\ queue \in Seq(Tasks) /\ b \in Seq(Tasks) /\ Distinct(b)
        /\ Elements(b) \cap Elements(queue) = {}
    BY <1>0, <2>1 DEF HolderInv, OneHolder, TypeOK, Polls, Marked
  <2>4. Distinct(queue') /\ Elements(queue') = Elements(queue) \cup Elements(b)
    BY <1>0, <2>1, <2>3, ConcatOfDistinct
  <2>5. \A v \in Workers : poll'[v].pc \notin {"found", "marked"}
    BY <2>2
  <2>6. OneHolder'
    BY <2>1, <2>4, <2>5 DEF HolderInv, OneHolder, Marked, Busy
  <2>7. Waiting' \subseteq Waiting
    BY <2>1, <2>4, <2>5 DEF Waiting, Marked
  <2>8. HoldersAreFresh'
    BY <2>1, <2>5, <2>7 DEF HolderInv, HoldersAreFresh, Live
  <2>9. QED
    BY <2>6, <2>8 DEF HolderInv
<1>5. CASE PollFails(w)
  BY <1>0, <1>5, HolderInvDrop DEF PollFails, IdlePoll
<1>6. CASE PollRelease(w)
  BY <1>0, <1>6, HolderInvDrop DEF PollRelease, IdlePoll
<1>7. QED
  BY <1>1, <1>2, <1>3, <1>4, <1>5, <1>6, PollStep(w) DEF PollStep

\* The end of a run moves its permit from "running" to "done".
LEMMA EndRunHolderInv ==
  ASSUME TypeOK, HolderInv, NEW s \in Slots, slot[s].pc = "running",
         slot' \in [Slots -> Runs], slot'[s].pc = "done", slot'[s].task = slot[s].task,
         slot'[s].attempt = slot[s].attempt,
         \A r \in Slots : r # s => slot'[r] = slot[r],
         UNCHANGED <<status, attempt, age, queue, poll>>
  PROVE  HolderInv'
<1> DEFINE t == slot[s].task
<1>1. t \in Tasks /\ Timeout[t] \in Nat /\ MaxWait \in Nat /\ age[t] \in Nat /\ slot[s].elapsed \in Nat
  BY TaskSystemAssumption DEF TypeOK, Runs
<1>2. /\ age[t] <= MaxWait + Timeout[t] /\ status[t] = InProgress
      /\ attempt[t] = slot[s].attempt
  BY DEF HolderInv, HoldersAreFresh, Live
<1>3. OneHolder'
  BY DEF HolderInv, OneHolder, Marked, Busy
<1>4. Waiting' \subseteq Waiting
  BY DEF Waiting, Marked
<1>5. HoldersAreFresh'
  BY <1>2, <1>4 DEF HolderInv, HoldersAreFresh, Live
<1>6. QED
  BY <1>3, <1>5 DEF HolderInv

LEMMA ConsumerStepHolderInv ==
  ASSUME TypeOK, PollInv, HolderInv, TimeoutsBelowStale, NEW s \in Slots, ConsumerStep(s)
  PROVE  HolderInv'
<1> USE DEF rowVars, envVars
<1> DEFINE t == slot[s].task
<1>0. slot \in [Slots -> Runs] /\ Distinct(queue) /\ queue \in Seq(Tasks)
  BY DEF TypeOK, HolderInv, OneHolder
<1>1. CASE Pop(s)
  <2>1. /\ slot[s].pc = "idle" /\ queue # <<>> /\ queue' = Tail(queue)
        /\ slot'[s].pc = "popped" /\ slot'[s].task = Head(queue)
        /\ \A r \in Slots : r # s => slot'[r] = slot[r]
        /\ UNCHANGED <<status, attempt, age, poll>>
    BY <1>0, <1>1 DEF Pop, IdleSlot
  <2>2. /\ Distinct(queue') /\ Head(queue) \in Elements(queue)
        /\ Elements(queue') \subseteq Elements(queue) /\ Head(queue) \notin Elements(queue')
    BY <1>0, <2>1, TailOfDistinct
  <2>3. OneHolder'
    BY <2>1, <2>2 DEF HolderInv, OneHolder, Marked, Busy
  <2>4. Waiting' \subseteq Waiting
    BY <2>1, <2>2 DEF Waiting, Marked
  <2>5. HoldersAreFresh'
    BY <2>1, <2>4 DEF HolderInv, HoldersAreFresh, Live
  <2>6. QED
    BY <2>3, <2>5 DEF HolderInv
<1>2. CASE Fetch(s)
  <2>1. slot[s].pc = "popped" /\ t \in Tasks /\ t \in Waiting
    BY <1>2 DEF Fetch, TypeOK, Waiting
  <2>2. status[t] = InProgress /\ age[t] <= MaxWait
    BY <2>1 DEF HolderInv, HoldersAreFresh
  <2>3. /\ slot'[s].pc = "running" /\ slot'[s].task = t
        /\ slot'[s].attempt = attempt[t] /\ slot'[s].elapsed = 0
        /\ \A r \in Slots : r # s => slot'[r] = slot[r]
        /\ UNCHANGED <<status, attempt, age, queue, poll>>
    BY <1>0, <1>2, <2>2 DEF Fetch, IdleSlot
  <2>4. OneHolder'
    BY <2>1, <2>3 DEF HolderInv, OneHolder, Marked, Busy
  <2>5. Waiting' \subseteq Waiting
    BY <2>3 DEF Waiting, Marked
  <2>6. Timeout[t] \in Nat /\ MaxWait \in Nat /\ age[t] \in Nat
    BY <2>1, TaskSystemAssumption DEF TypeOK
  <2>7. age[t] <= MaxWait + Timeout[t] /\ age[t] <= MaxWait + 0 /\ 0 <= Timeout[t]
    BY <2>2, <2>6
  <2>8. HoldersAreFresh'
    BY <2>2, <2>3, <2>5, <2>7 DEF HolderInv, HoldersAreFresh, Live
  <2>9. QED
    BY <2>4, <2>8 DEF HolderInv
<1>3. CASE HandlerReturns(s) \/ HandlerTimesOut(s)
  <2>1. PICK result \in TaskResult : EndRun(s, result)
    BY <1>3, TaskSystemAssumption DEF HandlerReturns, HandlerTimesOut, TaskResult, TypeOK, Runs
  <2>2. slot[s].pc = "running" /\ UNCHANGED <<status, attempt, age, queue, poll>>
    BY <1>3 DEF HandlerReturns, HandlerTimesOut
  <2>3. slot' \in [Slots -> Runs]
    BY <2>1, <2>2, EndRunType
  <2>4. /\ slot'[s].pc = "done" /\ slot'[s].task = slot[s].task
        /\ slot'[s].attempt = slot[s].attempt
        /\ \A r \in Slots : r # s => slot'[r] = slot[r]
    BY <2>1, <2>2, EndRunSlot
  <2>5. QED
    BY <2>2, <2>3, <2>4, EndRunHolderInv
<1>4. CASE Persist(s)
  <2>1. /\ slot[s].pc = "done" /\ t \in Tasks /\ Busy(s) /\ status[t] = InProgress
        /\ \A x \in Tasks : x # t =>
             status'[x] = status[x] /\ age'[x] = age[x] /\ attempt'[x] = attempt[x]
        /\ slot'[s].pc = "idle"
        /\ \A r \in Slots : r # s => slot'[r] = slot[r]
        /\ UNCHANGED <<queue, poll>>
    BY <1>4 DEF Persist, TypeOK, Busy, IdleSlot, HolderInv, HoldersAreFresh, Live
  <2>2. OneHolder'
    BY <2>1 DEF HolderInv, OneHolder, Marked, Busy
  <2>3. ASSUME NEW x \in Waiting' PROVE x \in Waiting /\ x # t
    <3>1. x \in Waiting
      BY <2>1, <2>3 DEF Waiting, Marked
    <3>2. x # t
      BY <2>1, <2>3 DEF Waiting, Marked, HolderInv, OneHolder, Busy
    <3>3. QED
      BY <3>1, <3>2
  <2>4. ASSUME NEW r \in Slots, slot'[r].pc # "idle"
        PROVE  r # s /\ slot[r].task # t /\ slot[r].task \in Tasks /\ slot'[r] = slot[r]
    BY <2>1, <2>4 DEF HolderInv, OneHolder, Busy, TypeOK
  <2>5. ASSUME NEW v \in Workers, poll'[v].pc = "found", NEW x \in Elements(poll'[v].batch)
        PROVE  status'[x] = Pending
    <3>1. status[x] = Pending /\ x \in Tasks
      BY <2>1, <2>5 DEF HolderInv, HoldersAreFresh, TypeOK, Polls, Elements
    <3>2. QED
      BY <2>1, <3>1 DEF Pending, InProgress
  <2>6. HoldersAreFresh'
    <3>1. \A x \in Waiting' : status'[x] = InProgress /\ age'[x] <= MaxWait
      BY <2>1, <2>3 DEF HolderInv, HoldersAreFresh, Waiting
    <3>2. QED
      BY <2>1, <2>4, <2>5, <3>1 DEF HolderInv, HoldersAreFresh, Live
  <2>7. QED
    BY <2>2, <2>6 DEF HolderInv
<1>5. CASE RunIsLost(s)
  BY <1>0, <1>5, HolderInvDrop DEF RunIsLost, IdleSlot
<1>6. QED
  BY <1>1, <1>2, <1>3, <1>4, <1>5, ConsumerStep(s) DEF ConsumerStep

LEMMA TickHolderInv ==
  ASSUME TypeOK, HolderInv, Tick
  PROVE  HolderInv'
<1>0. /\ MaxWait \in Nat /\ Stale \in Nat /\ age \in [Tasks -> Nat]
      /\ poll \in [Workers -> Polls] /\ slot \in [Slots -> Runs] /\ Timeout \in [Tasks -> Nat]
  BY TaskSystemAssumption DEF TypeOK
<1>1. \A a \in Nat : Older(a) \in Nat /\ Older(a) <= a + 1
  BY <1>0 DEF Older, LesserOf
<1>2. /\ UNCHANGED <<status, attempt, queue>>
      /\ \A t \in Tasks : age'[t] \in Nat /\ age'[t] <= age[t] + 1
  BY <1>0, <1>1 DEF Tick
<1>3. \A w \in Workers :
        /\ poll'[w].pc = poll[w].pc /\ poll'[w].batch = poll[w].batch
        /\ poll'[w].age \in Nat /\ (poll[w].pc = "found" => poll'[w].age <= poll[w].age + 1)
  BY <1>0, <1>1 DEF Tick, Polls
<1>4. \A s \in Slots :
        /\ slot'[s].pc = slot[s].pc /\ slot'[s].task = slot[s].task
        /\ slot'[s].attempt = slot[s].attempt
        /\ slot[s].pc = "running" => slot'[s].elapsed = slot[s].elapsed + 1
  BY <1>0 DEF Tick, Runs
<1>5. OneHolder'
  BY <1>2, <1>3, <1>4 DEF HolderInv, OneHolder, Marked, Busy
<1>6. Waiting' \subseteq Waiting
  BY <1>2, <1>3, <1>4 DEF Waiting, Marked
<1>7. \A t \in Waiting' : status'[t] = InProgress /\ age'[t] <= MaxWait
  <2> SUFFICES ASSUME NEW t \in Waiting' PROVE status'[t] = InProgress /\ age'[t] <= MaxWait
    OBVIOUS
  <2>1. t \in Waiting /\ t \in Tasks
    BY <1>6 DEF Waiting
  <2>2. status[t] = InProgress /\ age[t] < MaxWait
    BY <2>1 DEF HolderInv, HoldersAreFresh, Tick, Punctual
  <2>3. QED
    BY <1>0, <1>2, <2>1, <2>2
<1>8. ASSUME NEW w \in Workers, poll'[w].pc = "found"
      PROVE  /\ poll'[w].age <= MaxWait
             /\ \A t \in Elements(poll'[w].batch) : status'[t] = Pending
  <2>1. poll[w].pc = "found" /\ poll[w].age < MaxWait /\ poll[w].age \in Nat
    BY <1>0, <1>3, <1>8 DEF Tick, Punctual, Polls
  <2>2. poll'[w].age <= MaxWait
    BY <1>0, <1>3, <2>1
  <2>3. QED
    BY <1>2, <1>3, <2>1, <2>2 DEF HolderInv, HoldersAreFresh
<1>9. ASSUME NEW s \in Slots, slot'[s].pc = "running"
      PROVE  /\ status'[slot'[s].task] = InProgress
             /\ attempt'[slot'[s].task] = slot'[s].attempt
             /\ slot'[s].elapsed <= Timeout[slot'[s].task]
             /\ age'[slot'[s].task] <= MaxWait + slot'[s].elapsed
             /\ age'[slot'[s].task] <= MaxWait + Timeout[slot'[s].task]
  <2> DEFINE t == slot[s].task
  <2>1. slot[s].pc = "running" /\ t \in Tasks /\ slot[s].elapsed \in Nat /\ age[t] \in Nat /\ Timeout[t] \in Nat
    BY <1>0, <1>4, <1>9 DEF TypeOK, Runs
  <2>2. /\ status[t] = InProgress /\ attempt[t] = slot[s].attempt
        /\ age[t] <= MaxWait + slot[s].elapsed
    BY <2>1 DEF HolderInv, HoldersAreFresh, Live
  <2>3. slot[s].elapsed < Timeout[t]
    BY <2>1 DEF Tick, TimersFired
  <2>4. slot'[s].elapsed = slot[s].elapsed + 1 /\ slot'[s].task = t /\ slot'[s].attempt = slot[s].attempt
    BY <1>4, <2>1
  <2>5. age'[t] \in Nat /\ age'[t] <= age[t] + 1
    BY <1>2, <2>1
  <2>6. age'[t] <= MaxWait + slot'[s].elapsed /\ slot'[s].elapsed <= Timeout[t]
    BY <1>0, <2>1, <2>2, <2>3, <2>4, <2>5
  <2>7. age'[t] <= MaxWait + Timeout[t]
    BY <1>0, <2>1, <2>4, <2>5, <2>6
  <2>8. QED
    BY <1>2, <2>2, <2>4, <2>6, <2>7
<1>10. ASSUME NEW s \in Slots, slot'[s].pc = "done"
       PROVE  /\ status'[slot'[s].task] = InProgress
              /\ attempt'[slot'[s].task] = slot'[s].attempt
              /\ age'[slot'[s].task] <= MaxWait + Timeout[slot'[s].task]
  <2> DEFINE t == slot[s].task
  <2>1. slot[s].pc = "done" /\ t \in Tasks /\ age[t] \in Nat /\ Timeout[t] \in Nat
    BY <1>0, <1>4, <1>10 DEF TypeOK
  <2>2. /\ status[t] = InProgress /\ age[t] < MaxWait + Timeout[t]
        /\ attempt[t] = slot[s].attempt
    BY <2>1 DEF HolderInv, HoldersAreFresh, Live, Tick, Punctual
  <2>3. age'[t] \in Nat /\ age'[t] <= age[t] + 1
    BY <1>2, <2>1
  <2>4. age'[t] <= MaxWait + Timeout[t]
    BY <1>0, <2>1, <2>2, <2>3
  <2>5. QED
    BY <1>2, <1>4, <2>2, <2>4
<1>11. HoldersAreFresh'
  BY <1>7, <1>8, <1>9, <1>10 DEF HoldersAreFresh, Live
<1>12. QED
  BY <1>5, <1>11 DEF HolderInv

\* Recovery meets no holder: a held row is never stale.
LEMMA RecoverHolderInv ==
  ASSUME TypeOK, HolderInv, TimeoutsBelowStale, Recover
  PROVE  HolderInv'
<1>1. /\ UNCHANGED <<attempt, queue, poll, slot>>
      /\ \A t \in Tasks : ~IsStale(t) => status'[t] = status[t] /\ age'[t] = age[t]
  BY DEF Recover
<1>2. OneHolder'
  BY <1>1 DEF HolderInv, OneHolder, Marked, Busy
<1>3. \A t \in Waiting' : t \in Waiting
  BY <1>1 DEF Waiting, Marked
<1>4. \A t \in Waiting : t \in Tasks /\ ~IsStale(t)
  BY HeldRows DEF HolderInv, Waiting, Marked, Busy
<1>5. ASSUME NEW s \in Slots, Busy(s)
      PROVE  /\ status'[slot[s].task] = status[slot[s].task]
             /\ age'[slot[s].task] = age[slot[s].task]
  BY <1>1, <1>5, HeldRows DEF HolderInv
<1>6. ASSUME NEW w \in Workers, poll[w].pc = "found", NEW t \in Elements(poll[w].batch)
      PROVE  status'[t] = Pending
  <2>1. t \in Tasks /\ status[t] = Pending
    BY <1>6 DEF HolderInv, HoldersAreFresh, Elements, TypeOK, Polls
  <2>2. QED
    BY <1>1, <2>1 DEF IsStale, Pending, InProgress
<1>7. HoldersAreFresh'
  BY <1>1, <1>3, <1>4, <1>5, <1>6 DEF HolderInv, HoldersAreFresh, Live, Busy
<1>8. QED
  BY <1>2, <1>7 DEF HolderInv

LEMMA WorkerStepHolderInv ==
  ASSUME TypeOK, HolderInv, NEW w \in Workers, WorkerStep(w)
  PROVE  HolderInv'
<1> USE DEF rowVars, envVars
<1>0. Distinct(queue) /\ queue \in Seq(Tasks)
  BY DEF HolderInv, OneHolder, TypeOK
<1>1. CASE Shutdown(w)
  <2>1. queue' = queue \/ (queue # <<>> /\ queue' = Tail(queue))
    BY <1>1 DEF Shutdown
  <2>2. Distinct(queue') /\ Elements(queue') \subseteq Elements(queue)
    BY <1>0, <2>1, TailOfDistinct
  <2>3. QED
    BY <1>1, <2>2, HolderInvDrop DEF Shutdown
<1>2. CASE Drained(w) \/ Restart(w)
  BY <1>0, <1>2, HolderInvDrop DEF Drained, Restart
<1>3. CASE Crash(w)
  <2>1. /\ \A v \in Workers : poll'[v] = poll[v] \/ poll'[v].pc = "idle"
        /\ \A s \in Slots : slot'[s] = slot[s] \/ slot'[s].pc = "idle"
    BY <1>3 DEF Crash, DropPoll, DropSlots, IdlePoll, IdleSlot, TypeOK
  <2>2. QED
    BY <1>0, <1>3, <2>1, HolderInvDrop DEF Crash
<1>4. QED
  BY <1>1, <1>2, <1>3, WorkerStep(w) DEF WorkerStep

LEMMA NextHolderInv ==
  ASSUME TypeOK, PollInv, HolderInv, TimeoutsBelowStale, [Next]_vars
  PROVE  HolderInv'
<1> USE DEF rowVars, envVars
<1>0. Distinct(queue)
  BY DEF HolderInv, OneHolder
<1>1. CASE \E t \in Tasks : Schedule(t)
  <2>1. PICK t \in Tasks : Schedule(t)
    BY <1>1
  <2>2. /\ UNCHANGED <<attempt, age, queue, poll, slot>>
        /\ status[t] = NotCreated
        /\ \A x \in Tasks : x # t => status'[x] = status[x]
    BY <2>1 DEF Schedule, TypeOK
  <2>3. /\ \A x \in Waiting : x # t
        /\ \A s \in Slots : Busy(s) => slot[s].task # t /\ slot[s].task \in Tasks
        /\ \A w \in Workers : poll[w].pc = "found" =>
             \A x \in Elements(poll[w].batch) : x # t /\ x \in Tasks
    <3>1. ASSUME NEW x \in Waiting PROVE x # t
      BY <2>2 DEF HolderInv, HoldersAreFresh, NotCreated, InProgress
    <3>2. ASSUME NEW s \in Slots, Busy(s) PROVE slot[s].task # t /\ slot[s].task \in Tasks
      BY <2>2, <3>2, HeldRows DEF HolderInv, NotCreated, InProgress
    <3>3. ASSUME NEW w \in Workers, poll[w].pc = "found", NEW x \in Elements(poll[w].batch)
          PROVE  x # t /\ x \in Tasks
      <4>1. x \in Tasks
        BY <3>3 DEF Elements, TypeOK, Polls
      <4>2. status[x] = Pending
        BY <3>3 DEF HolderInv, HoldersAreFresh
      <4>3. QED
        BY <2>2, <4>1, <4>2 DEF NotCreated, Pending
    <3>4. QED
      BY <3>1, <3>2, <3>3
  <2>4. OneHolder'
    BY <2>2 DEF HolderInv, OneHolder, Marked, Busy
  <2>5. Waiting' \subseteq Waiting
    BY <2>2 DEF Waiting, Marked
  <2>6. HoldersAreFresh'
    BY <2>2, <2>3, <2>5 DEF HolderInv, HoldersAreFresh, Live, Busy, Waiting
  <2>7. QED
    BY <2>4, <2>6 DEF HolderInv
<1>2. CASE \E w \in Workers : PollStep(w) \/ WorkerStep(w)
  BY <1>2, PollStepHolderInv, WorkerStepHolderInv
<1>3. CASE \E s \in Slots : ConsumerStep(s)
  BY <1>3, ConsumerStepHolderInv
<1>4. CASE LockExpires
  BY <1>0, <1>4, HolderInvDrop DEF LockExpires
<1>5. CASE Recover
  BY <1>5, RecoverHolderInv
<1>6. CASE QueueLost
  <2>1. Distinct(queue') /\ Elements(queue') = {}
    BY <1>6 DEF QueueLost, Distinct, Elements
  <2>2. QED
    BY <1>6, <2>1, HolderInvDrop DEF QueueLost
<1>7. CASE Tick
  BY <1>7, TickHolderInv
<1>8. CASE UNCHANGED vars
  BY <1>0, <1>8, HolderInvDrop DEF vars
<1>9. QED
  BY <1>1, <1>2, <1>3, <1>4, <1>5, <1>6, <1>7, <1>8 DEF Next

\* The environment under which the claims of the task system hold.
InTime == PollsFitTheTTL /\ TimeoutsBelowStale

\* Then every IN_PROGRESS row has at most one holder among queue, batches and
\* permits, the holder's row is not stale, and a key is claimed once.
THEOREM ClaimInvariant == InTime /\ Spec => [](TypeOK /\ ClaimInv)
<1>1. Init => PollInv /\ HolderInv
  BY InitPollInv, InitHolderInv
<1>2. InTime /\ TypeOK /\ PollInv /\ HolderInv /\ [Next]_vars => PollInv' /\ HolderInv'
  BY NextPollInv, NextHolderInv DEF InTime
<1>3. PollInv /\ HolderInv => ClaimInv
  BY DEF HolderInv, ClaimInv
<1>4. CASE InTime
  BY <1>1, <1>2, <1>3, <1>4, TypeCorrect, PTL DEF Spec
<1>5. QED
  BY <1>4

\* If every task type's timeout and the wait before it stay below the stale
\* threshold, then no two handlers of one task, or of one ordering key, are ever
\* live together, on any number of workers, with any crashes and losses.
THEOREM RunsAreSequential == InTime /\ Spec => []SequentialRuns
<1>1. TypeOK /\ ClaimInv => SequentialRuns
  <2> SUFFICES ASSUME TypeOK, ClaimInv, NEW r \in Slots, NEW s \in Slots, Live(r), Live(s),
                      SameKey(slot[r].task, slot[s].task)
               PROVE  r = s
    BY DEF SequentialRuns
  <2>1. /\ Busy(r) /\ Busy(s)
        /\ slot[r].task \in Tasks /\ slot[s].task \in Tasks
    BY DEF Busy, Live, TypeOK
  <2>2. status[slot[r].task] = InProgress /\ status[slot[s].task] = InProgress
    BY DEF ClaimInv, HoldersAreFresh
  <2>3. slot[r].task = slot[s].task
    BY <2>1, <2>2 DEF ClaimInv, PollInv, OneInProgressPerKey
  <2>4. QED
    BY <2>1, <2>3 DEF ClaimInv, OneHolder
<1>2. QED
  BY <1>1, ClaimInvariant, PTL

\* Under the same assumption a result is written over the claim it came from,
\* never over a newer one.
THEOREM ResultsHitTheirClaim == InTime /\ Spec => []RunsOwnTheirRow
<1>1. ClaimInv => RunsOwnTheirRow
  BY DEF ClaimInv, HoldersAreFresh, RunsOwnTheirRow
<1>2. QED
  BY <1>1, ClaimInvariant, PTL

\* And COMPLETED and DEAD_LETTER are final, although both mark_in_progress and
\* batch_update write by id whatever the row has become.
THEOREM FinalIsFinal == InTime /\ Spec => FinalStatusIsFinal
<1>1. TypeOK /\ ClaimInv /\ [Next]_vars =>
        [\A t \in Tasks : status[t] \in Terminal => status'[t] = status[t]]_vars
  <2> SUFFICES ASSUME TypeOK, ClaimInv, Next, NEW t \in Tasks, status[t] \in Terminal
               PROVE  status'[t] = status[t]
    OBVIOUS
  <2> USE DEF rowVars, envVars
  <2>0. status[t] # InProgress /\ status[t] # Pending /\ status[t] # NotCreated
    BY DEF Terminal, InProgress, Pending, NotCreated, Completed, DeadLetter
  <2>1. CASE \E x \in Tasks : Schedule(x)
    BY <2>0, <2>1 DEF Schedule, TypeOK
  <2>2. CASE \E w \in Workers : PollStep(w)
    <3>1. PICK w \in Workers : PollStep(w)
      BY <2>2
    <3>2. CASE PollMark(w)
      BY <2>0, <3>2 DEF PollMark, ClaimInv, HoldersAreFresh
    <3>3. CASE ~PollMark(w)
      BY <3>1, <3>3 DEF PollStep, PollAcquire, PollFind, PollPublish, PollFails, PollRelease
    <3>4. QED
      BY <3>2, <3>3
  <2>3. CASE \E w \in Workers : WorkerStep(w)
    BY <2>3 DEF WorkerStep, Shutdown, Drained, Crash, Restart
  <2>4. CASE \E s \in Slots : ConsumerStep(s)
    <3>1. PICK s \in Slots : ConsumerStep(s)
      BY <2>4
    <3>2. CASE Persist(s)
      <4>1. slot[s].task # t
        BY <2>0, <3>2 DEF Persist, ClaimInv, HoldersAreFresh, Live
      <4>2. QED
        BY <3>2, <4>1 DEF Persist, TypeOK
    <3>3. CASE ~Persist(s)
      BY <3>1, <3>3 DEF ConsumerStep, Pop, Fetch, HandlerReturns, HandlerTimesOut, RunIsLost
    <3>4. QED
      BY <3>2, <3>3
  <2>5. CASE Recover
    BY <2>0, <2>5 DEF Recover, IsStale
  <2>6. CASE LockExpires \/ QueueLost \/ Tick
    BY <2>6 DEF LockExpires, QueueLost, Tick
  <2>7. QED
    BY <2>1, <2>2, <2>3, <2>4, <2>5, <2>6 DEF Next
<1>2. QED
  BY <1>1, ClaimInvariant, PTL DEF Spec, FinalStatusIsFinal

----------------------------------------------------------------------------
(* The retry budget                                                         *)

\* compute_update never counts past max_retries, whatever the result.
LEMMA ComputeUpdateBudget ==
  ASSUME NEW a \in Nat, NEW m \in Nat \cup {NoRetries}, NEW i \in Nat, NEW d \in Nat,
         NEW result \in TaskResult, a <= IF m = NoRetries THEN 0 ELSE m
  PROVE  ComputeUpdate(a, m, i, d, result).attempt <= IF m = NoRetries THEN 0 ELSE m
  BY DEF ComputeUpdate, OnSuccess, OnRetryableFailure, OnPermanentFailure, OnSkip,
         OnTerminate, CanRetry, Update, TaskResult, NoRetries, NoInterval

LEMMA BudgetType == \A t \in Tasks : Budget(t) \in Nat
  BY TaskSystemAssumption DEF Budget, NoRetries

\* The steps that end no run and start none.
LEMMA BudgetQuiet ==
  ASSUME BudgetInv, UNCHANGED attempt,
         \A s \in Slots :
           \/ slot'[s] = slot[s]
           \/ slot'[s].pc \notin {"running", "done"}
  PROVE  BudgetInv'
  BY DEF BudgetInv, AttemptsWithinBudget, Budget

LEMMA EndRunBudget ==
  ASSUME TypeOK, BudgetInv, NEW s \in Slots, slot[s].pc = "running",
         NEW result \in TaskResult, EndRun(s, result), UNCHANGED attempt
  PROVE  BudgetInv'
<1> DEFINE t == slot[s].task
<1>1. t \in Tasks /\ slot[s].attempt \in Nat
  BY DEF TypeOK, Runs
<1>2. PICK d \in RetryDelays :
        /\ slot'[s].pc = "done" /\ slot'[s].task = t
        /\ slot'[s].update = ComputeUpdate(slot[s].attempt, MaxRetries[t], Interval[t], d, result)
        /\ \A r \in Slots : r # s => slot'[r] = slot[r]
  BY EndRunSlot
<1>3. slot'[s].update.attempt <= Budget(t)
  <2>1. slot[s].attempt <= IF MaxRetries[t] = NoRetries THEN 0 ELSE MaxRetries[t]
    BY DEF BudgetInv, Budget
  <2>2. MaxRetries[t] \in Nat \cup {NoRetries} /\ Interval[t] \in Nat /\ d \in Nat
    BY <1>1, TaskSystemAssumption
  <2>3. ComputeUpdate(slot[s].attempt, MaxRetries[t], Interval[t], d, result).attempt
          <= IF MaxRetries[t] = NoRetries THEN 0 ELSE MaxRetries[t]
    BY <1>1, <2>1, <2>2, ComputeUpdateBudget
  <2>4. QED
    BY <1>2, <2>3 DEF Budget
<1>4. QED
  BY <1>2, <1>3 DEF BudgetInv, AttemptsWithinBudget, Budget

LEMMA NextBudget ==
  ASSUME TypeOK, BudgetInv, [Next]_vars
  PROVE  BudgetInv'
<1> USE DEF rowVars, envVars
<1>1. CASE \E t \in Tasks : Schedule(t)
  BY <1>1, BudgetQuiet DEF Schedule
<1>2. CASE \E w \in Workers : PollStep(w) \/ WorkerStep(w)
  <2>1. PICK w \in Workers : PollStep(w) \/ WorkerStep(w)
    BY <1>2
  <2>2. CASE Crash(w)
    BY <2>2, BudgetQuiet DEF Crash, DropSlots, IdleSlot
  <2>3. CASE ~Crash(w)
    BY <2>1, <2>3, BudgetQuiet
    DEF PollStep, PollAcquire, PollFind, PollMark, PollPublish, PollFails, PollRelease,
        WorkerStep, Shutdown, Drained, Restart
  <2>4. QED
    BY <2>2, <2>3
<1>3. CASE \E s \in Slots : ConsumerStep(s)
  <2>1. PICK s \in Slots : ConsumerStep(s)
    BY <1>3
  <2>2. CASE Pop(s) \/ RunIsLost(s)
    <3>1. UNCHANGED attempt
      BY <2>2 DEF Pop, RunIsLost
    <3>2. ASSUME NEW r \in Slots PROVE slot'[r] = slot[r] \/ slot'[r].pc \notin {"running", "done"}
      <4>1. slot \in [Slots -> Runs] /\ s \in Slots
        BY DEF TypeOK
      <4>2. CASE Pop(s)
        BY <4>1, <4>2 DEF Pop, IdleSlot
      <4>3. CASE RunIsLost(s)
        BY <4>1, <4>3 DEF RunIsLost, IdleSlot
      <4>4. QED
        BY <2>2, <4>2, <4>3
    <3>3. QED
      BY <3>1, <3>2, BudgetQuiet
  <2>3. CASE Fetch(s)
    <3>1. /\ UNCHANGED attempt /\ slot[s].task \in Tasks
          /\ \A r \in Slots : r # s => slot'[r] = slot[r]
          /\ slot'[s].pc # "done"
          /\ slot'[s].pc = "running" => /\ slot'[s].task = slot[s].task
                                        /\ slot'[s].attempt = attempt[slot[s].task]
      BY <2>3 DEF Fetch, TypeOK, IdleSlot
    <3>2. QED
      BY <3>1 DEF BudgetInv, AttemptsWithinBudget, Budget
  <2>4. CASE HandlerReturns(s)
    <3>1. PICK result \in TaskResult : EndRun(s, result)
      BY <2>4, TaskSystemAssumption DEF HandlerReturns, TypeOK
    <3>2. QED
      BY <2>4, <3>1, EndRunBudget DEF HandlerReturns
  <2>5. CASE HandlerTimesOut(s)
    BY <2>5, EndRunBudget DEF HandlerTimesOut, TaskResult
  <2>6. CASE Persist(s)
    <3>1. /\ slot[s].pc = "done" /\ slot[s].task \in Tasks
          /\ attempt' = [attempt EXCEPT ![slot[s].task] = slot[s].update.attempt]
          /\ slot' = [slot EXCEPT ![s] = IdleSlot]
      BY <2>6 DEF Persist, TypeOK
    <3>2. slot[s].update.attempt <= Budget(slot[s].task)
      BY <3>1 DEF BudgetInv, AttemptsWithinBudget
    <3>3. \A r \in Slots : slot'[r].pc \in {"running", "done"} => slot'[r] = slot[r]
      BY <3>1 DEF IdleSlot, TypeOK
    <3>4. \A t \in Tasks : attempt'[t] <= Budget(t)
      BY <3>1, <3>2 DEF BudgetInv, AttemptsWithinBudget, TypeOK
    <3>5. QED
      BY <3>3, <3>4 DEF BudgetInv, AttemptsWithinBudget, Budget
  <2>7. QED
    BY <2>1, <2>2, <2>3, <2>4, <2>5, <2>6 DEF ConsumerStep
<1>4. CASE LockExpires \/ Recover \/ QueueLost
  BY <1>4, BudgetQuiet DEF LockExpires, Recover, QueueLost
<1>5. CASE Tick
  <2>1. /\ UNCHANGED attempt
        /\ \A s \in Slots : /\ slot'[s].pc = slot[s].pc /\ slot'[s].task = slot[s].task
                            /\ slot'[s].attempt = slot[s].attempt
                            /\ slot'[s].update = slot[s].update
    BY <1>5 DEF Tick, TypeOK, Runs
  <2>2. QED
    BY <2>1 DEF BudgetInv, AttemptsWithinBudget, Budget
<1>6. CASE UNCHANGED vars
  BY <1>6, BudgetQuiet DEF vars
<1>7. QED
  BY <1>1, <1>2, <1>3, <1>4, <1>5, <1>6 DEF Next

\* No assumption on timing here: polls that outlive their lock, runs in
\* duplicate and results over the wrong claim never make a row count past its
\* type's max_retries.
THEOREM RetriesAreBounded == Spec => []AttemptsWithinBudget
<1>1. Init => BudgetInv
  BY BudgetType DEF Init, BudgetInv, AttemptsWithinBudget, IdleSlot
<1>2. TypeOK /\ BudgetInv /\ [Next]_vars => BudgetInv'
  BY NextBudget
<1>3. BudgetInv => AttemptsWithinBudget
  BY DEF BudgetInv
<1>4. QED
  BY <1>1, <1>2, <1>3, TypeCorrect, PTL DEF Spec

\* Under the timing assumption stale recovery never takes the task of a handler
\* that is still at work: a held row is not stale, and no other step makes a
\* running task PENDING but the one that ends its run.
THEOREM LiveRunsAreSafe == InTime /\ Spec => LiveRunsAreNotReset
<1> DEFINE Kept == \A t \in Tasks :
                     status[t] = InProgress /\ status'[t] = Pending /\ slot' = slot
                       => ~\E s \in Slots : slot[s].pc = "running" /\ slot[s].task = t
<1>1. InTime /\ TypeOK /\ ClaimInv /\ [Next]_vars => [Kept]_vars
  <2> SUFFICES ASSUME InTime, TypeOK, ClaimInv, Next, NEW t \in Tasks,
                      status[t] = InProgress, status'[t] = Pending, slot' = slot,
                      NEW s \in Slots, slot[s].pc = "running", slot[s].task = t
               PROVE  FALSE
    OBVIOUS
  <2> USE DEF rowVars, envVars
  <2>0. ~IsStale(t) /\ Pending # InProgress
    BY HeldRows DEF InTime, ClaimInv, Busy, Pending, InProgress
  <2>1. CASE \E x \in Tasks : Schedule(x)
    BY <2>0, <2>1 DEF Schedule, TypeOK, NotCreated, InProgress
  <2>2. CASE \E w \in Workers : PollStep(w) \/ WorkerStep(w)
    BY <2>0, <2>2
    DEF PollStep, PollAcquire, PollFind, PollMark, PollPublish, PollFails, PollRelease,
        WorkerStep, Shutdown, Drained, Crash, Restart
  <2>3. CASE \E r \in Slots : ConsumerStep(r)
    <3>1. PICK r \in Slots : ConsumerStep(r)
      BY <2>3
    <3>2. Persist(r)
      BY <2>0, <3>1 DEF ConsumerStep, Pop, Fetch, HandlerReturns, HandlerTimesOut, RunIsLost
    <3>3. slot'[r].pc = "idle" /\ slot[r].pc = "done"
      BY <3>2 DEF Persist, TypeOK, IdleSlot
    <3>4. QED
      BY <3>3
  <2>4. CASE Recover
    BY <2>0, <2>4 DEF Recover
  <2>5. CASE LockExpires \/ QueueLost \/ Tick
    BY <2>0, <2>5 DEF LockExpires, QueueLost, Tick
  <2>6. QED
    BY <2>1, <2>2, <2>3, <2>4, <2>5 DEF Next
<1>2. CASE InTime
  BY <1>1, <1>2, ClaimInvariant, PTL DEF Spec, LiveRunsAreNotReset
<1>3. QED
  BY <1>2

----------------------------------------------------------------------------
(* The promise: TaskSystem implements TaskPromise                           *)

LEMMA UpdateQuiet ==
  ASSUME UpdateInv,
         \A s \in Slots :
           \/ slot'[s] = slot[s]
           \/ slot'[s].pc # "done"
  PROVE  UpdateInv'
  BY DEF UpdateInv

LEMMA EndRunUpdate ==
  ASSUME TypeOK, UpdateInv, NEW s \in Slots, slot[s].pc = "running",
         NEW result \in ResultsOf[slot[s].task] \cup {"RetryableFailure"}, EndRun(s, result)
  PROVE  UpdateInv'
<1> DEFINE t == slot[s].task
<1>1. PICK d \in RetryDelays :
        /\ slot'[s].pc = "done" /\ slot'[s].task = t /\ slot'[s].attempt = slot[s].attempt
        /\ slot'[s].update = ComputeUpdate(slot[s].attempt, MaxRetries[t], Interval[t], d, result)
        /\ \A r \in Slots : r # s => slot'[r] = slot[r]
  BY EndRunSlot
<1>2. ASSUME NEW r \in Slots, slot'[r].pc = "done"
      PROVE  \E res \in ResultsOf[slot'[r].task] \cup {"RetryableFailure"}, e \in RetryDelays :
               slot'[r].update =
                 ComputeUpdate(slot'[r].attempt, MaxRetries[slot'[r].task],
                               Interval[slot'[r].task], e, res)
  <2>1. CASE r = s
    BY <1>1, <2>1
  <2>2. CASE r # s
    BY <1>1, <1>2, <2>2 DEF UpdateInv
  <2>3. QED
    BY <2>1, <2>2
<1>3. QED
  BY <1>2 DEF UpdateInv

LEMMA NextUpdateInv ==
  ASSUME TypeOK, UpdateInv, [Next]_vars
  PROVE  UpdateInv'
<1> USE DEF rowVars, envVars
<1>1. CASE \E t \in Tasks : Schedule(t)
  BY <1>1, UpdateQuiet DEF Schedule
<1>2. CASE \E w \in Workers : PollStep(w) \/ WorkerStep(w)
  <2>1. PICK w \in Workers : PollStep(w) \/ WorkerStep(w)
    BY <1>2
  <2>2. CASE Crash(w)
    BY <2>2, UpdateQuiet DEF Crash, DropSlots, IdleSlot
  <2>3. CASE ~Crash(w)
    BY <2>1, <2>3, UpdateQuiet
    DEF PollStep, PollAcquire, PollFind, PollMark, PollPublish, PollFails, PollRelease,
        WorkerStep, Shutdown, Drained, Restart
  <2>4. QED
    BY <2>2, <2>3
<1>3. CASE \E s \in Slots : ConsumerStep(s)
  <2>0. slot \in [Slots -> Runs]
    BY DEF TypeOK
  <2>1. PICK s \in Slots : ConsumerStep(s)
    BY <1>3
  <2>2. CASE Pop(s)
    BY <2>0, <2>2, UpdateQuiet DEF Pop, IdleSlot
  <2>3. CASE Fetch(s)
    BY <2>0, <2>3, UpdateQuiet DEF Fetch, IdleSlot
  <2>4. CASE HandlerReturns(s)
    <3>1. PICK result \in ResultsOf[slot[s].task] : EndRun(s, result)
      BY <2>4 DEF HandlerReturns
    <3>2. QED
      BY <2>4, <3>1, EndRunUpdate DEF HandlerReturns
  <2>5. CASE HandlerTimesOut(s)
    BY <2>5, EndRunUpdate DEF HandlerTimesOut
  <2>6. CASE RunIsLost(s)
    BY <2>0, <2>6, UpdateQuiet DEF RunIsLost, IdleSlot
  <2>7. CASE Persist(s)
    BY <2>0, <2>7, UpdateQuiet DEF Persist, IdleSlot
  <2>8. QED
    BY <2>1, <2>2, <2>3, <2>4, <2>5, <2>6, <2>7 DEF ConsumerStep
<1>4. CASE LockExpires \/ Recover \/ QueueLost
  BY <1>4, UpdateQuiet DEF LockExpires, Recover, QueueLost
<1>5. CASE Tick
  <2>1. \A s \in Slots :
          /\ slot'[s].pc = slot[s].pc /\ slot'[s].task = slot[s].task
          /\ slot'[s].attempt = slot[s].attempt /\ slot'[s].update = slot[s].update
    BY <1>5 DEF Tick, TypeOK, Runs
  <2>2. QED
    BY <2>1 DEF UpdateInv
<1>6. CASE UNCHANGED vars
  BY <1>6, UpdateQuiet DEF vars
<1>7. QED
  BY <1>1, <1>2, <1>3, <1>4, <1>5, <1>6 DEF Next

\* TaskPromise's compute_update is the same operator.
LEMMA SameUpdate ==
  ASSUME NEW a \in Nat, NEW m \in Nat \cup {NoRetries}, NEW i \in Nat, NEW d \in Nat,
         NEW result \in TaskResult
  PROVE  Promise!ComputeUpdate(a, m, i, d, result) = ComputeUpdate(a, m, i, d, result)
  BY DEF Promise!ComputeUpdate, Promise!OnSuccess, Promise!OnRetryableFailure,
         Promise!OnPermanentFailure, Promise!OnSkip, Promise!OnTerminate, Promise!CanRetry,
         Promise!Update, Promise!Pending, Promise!Completed, Promise!DeadLetter,
         Promise!NoRetries, Promise!NoInterval, Promise!KeepNextRun,
         ComputeUpdate, OnSuccess, OnRetryableFailure, OnPermanentFailure, OnSkip,
         OnTerminate, CanRetry, Update, Pending, Completed, DeadLetter, NoRetries,
         NoInterval, KeepNextRun, TaskResult

\* A step that moves no row and ends or starts no live run is a stutter.
LEMMA PromiseQuiet ==
  ASSUME UNCHANGED <<status, attempt>>,
         \A s \in Slots :
           \/ slot'[s].pc = slot[s].pc /\ slot'[s].task = slot[s].task
           \/ ~Live(s) /\ ~Live(s)'
  PROVE  UNCHANGED <<PromisedState, attempt>>
<1>1. \A t \in Tasks : Running(t)' <=> Running(t)
  BY DEF Running, Live
<1>2. QED
  BY <1>1 DEF PromisedState

\* A step that moves no row and starts no run abandons the runs it ends.
LEMMA PromiseAbandon ==
  ASSUME ClaimInv, UNCHANGED <<status, attempt>>,
         \A s \in Slots : slot'[s] = slot[s] \/ slot'[s].pc = "idle"
  PROVE  Promise!Next
<1> DEFINE lost == {t \in Tasks : Running(t) /\ ~Running(t)'}
<1>1. \A t \in Tasks : Running(t)' => Running(t)
  BY DEF Running, Live
<1>2. \A t \in lost : status[t] = InProgress /\ PromisedState[t] = InProgress
  BY DEF Running, ClaimInv, HoldersAreFresh, PromisedState
<1>3. PromisedState' = [t \in Tasks |-> IF t \in lost THEN Pending ELSE PromisedState[t]]
  BY <1>1, <1>2 DEF PromisedState
<1>4. Promise!Abandon(lost)
  BY <1>2, <1>3 DEF Promise!Abandon, Promise!InProgress, Promise!Pending, InProgress, Pending
<1>5. QED
  BY <1>4 DEF Promise!Next

LEMMA SchedulePromise ==
  ASSUME TypeOK, ClaimInv, NEW t \in Tasks, Schedule(t)
  PROVE  Promise!Next
<1> USE DEF rowVars, envVars
<1>1. /\ status[t] = NotCreated /\ status' = [status EXCEPT ![t] = Pending]
      /\ UNCHANGED <<attempt, slot>>
  BY DEF Schedule
<1>2. \A x \in Tasks : Running(x)' <=> Running(x)
  BY <1>1 DEF Running, Live
<1>3. PromisedState[t] = NotCreated /\ PromisedState' = [PromisedState EXCEPT ![t] = Pending]
  BY <1>1, <1>2 DEF PromisedState, TypeOK, NotCreated, InProgress, Pending
<1>4. QED
  BY <1>1, <1>3 DEF Promise!Next, Promise!Submit, Promise!NotCreated, Promise!Pending,
                    NotCreated, Pending

LEMMA MarkPromise ==
  ASSUME TypeOK, ClaimInv, NEW w \in Workers, PollMark(w)
  PROVE  UNCHANGED <<PromisedState, attempt>>
<1> USE DEF rowVars, envVars
<1> DEFINE ids == Elements(poll[w].batch)
<1>1. /\ poll[w].pc = "found"
      /\ status' = [t \in Tasks |-> IF t \in ids THEN InProgress ELSE status[t]]
      /\ UNCHANGED <<attempt, slot>>
  BY DEF PollMark
<1>2. \A t \in Tasks : Running(t)' <=> Running(t)
  BY <1>1 DEF Running, Live
<1>3. ASSUME NEW t \in Tasks, t \in ids PROVE status[t] = Pending /\ ~Running(t)
  <2>1. status[t] = Pending
    BY <1>1, <1>3 DEF ClaimInv, HoldersAreFresh
  <2>2. QED
    BY <2>1 DEF Running, ClaimInv, HoldersAreFresh, Pending, InProgress
<1>4. \A t \in Tasks : PromisedState'[t] = PromisedState[t]
  BY <1>1, <1>2, <1>3 DEF PromisedState, Pending, InProgress
<1>5. QED
  BY <1>1, <1>4 DEF PromisedState

LEMMA RecoverPromise ==
  ASSUME TypeOK, ClaimInv, TimeoutsBelowStale, Recover
  PROVE  UNCHANGED <<PromisedState, attempt>>
<1>1. /\ status' = [t \in Tasks |-> IF IsStale(t) THEN Pending ELSE status[t]]
      /\ UNCHANGED <<attempt, slot>>
  BY DEF Recover
<1>2. \A t \in Tasks : Running(t)' <=> Running(t)
  BY <1>1 DEF Running, Live
<1>3. \A t \in Tasks : IsStale(t) => status[t] = InProgress /\ ~Running(t)
  BY HeldRows DEF ClaimInv, Running, Live, Busy, IsStale
<1>4. \A t \in Tasks : PromisedState'[t] = PromisedState[t]
  BY <1>1, <1>2, <1>3 DEF PromisedState, Pending, InProgress
<1>5. QED
  BY <1>1, <1>4 DEF PromisedState

LEMMA FetchPromise ==
  ASSUME TypeOK, ClaimInv, NEW s \in Slots, Fetch(s)
  PROVE  Promise!Next
<1> USE DEF rowVars, envVars
<1>0. PICK t \in Tasks : t = slot[s].task
  BY DEF Fetch, TypeOK
<1>1. /\ slot[s].pc = "popped" /\ slot[s].task = t /\ t \in Waiting
      /\ UNCHANGED <<status, attempt>>
  BY <1>0 DEF Fetch, Waiting, TypeOK
<1>2. status[t] = InProgress
  BY <1>1 DEF ClaimInv, HoldersAreFresh
<1>3. /\ slot'[s].pc = "running" /\ slot'[s].task = t
      /\ \A r \in Slots : r # s => slot'[r] = slot[r]
  BY <1>0, <1>2 DEF Fetch, TypeOK, IdleSlot
<1>4. ~Running(t)
  BY <1>1 DEF Running, Live, ClaimInv, OneHolder, Busy
<1>5. Running(t)' /\ \A x \in Tasks : x # t => (Running(x)' <=> Running(x))
  BY <1>1, <1>3 DEF Running, Live
<1>6. PromisedState[t] = Pending /\ PromisedState' = [PromisedState EXCEPT ![t] = InProgress]
  <2>1. PromisedState[t] = Pending /\ PromisedState'[t] = InProgress
    BY <1>1, <1>2, <1>4, <1>5 DEF PromisedState
  <2>2. \A x \in Tasks : x # t => PromisedState'[x] = PromisedState[x]
    BY <1>1, <1>5 DEF PromisedState
  <2>3. QED
    BY <2>1, <2>2 DEF PromisedState
<1>7. ASSUME KeyOf[t] # NoKey, NEW u \in Tasks, KeyOf[u] = KeyOf[t]
      PROVE  PromisedState[u] # InProgress
  <2>1. status[u] = InProgress => u = t
    BY <1>1, <1>2, <1>7 DEF ClaimInv, PollInv, OneInProgressPerKey, SameKey
  <2>2. QED
    BY <1>6, <2>1 DEF PromisedState, Pending, InProgress
<1>8. Promise!Start(t)
  BY <1>1, <1>6, <1>7 DEF Promise!Start, Promise!Pending, Promise!InProgress, Pending, InProgress
<1>9. QED
  BY <1>1, <1>8 DEF Promise!Next

LEMMA PersistPromise ==
  ASSUME TypeOK, ClaimInv, UpdateInv, NEW s \in Slots, Persist(s)
  PROVE  Promise!Next
<1> USE DEF rowVars, envVars
<1> DEFINE t == slot[s].task
           u == slot[s].update
<1>1. /\ slot[s].pc = "done" /\ t \in Tasks /\ u \in TaskUpdate
      /\ status'  = [status EXCEPT ![t] = u.status]
      /\ attempt' = [attempt EXCEPT ![t] = u.attempt]
      /\ slot'    = [slot EXCEPT ![s] = IdleSlot]
  BY DEF Persist, TypeOK, Runs
<1>2. Running(t) /\ status[t] = InProgress
  BY <1>1 DEF Running, Live, ClaimInv, HoldersAreFresh
<1>3. slot'[s] = IdleSlot /\ \A r \in Slots : r # s => slot'[r] = slot[r]
  BY <1>1 DEF TypeOK
<1>4. \A x \in Tasks : x # t => (Running(x)' <=> Running(x))
  BY <1>1, <1>3 DEF Running, Live, IdleSlot
<1>5. u.status # InProgress
  BY <1>1 DEF TaskUpdate, Pending, Completed, DeadLetter, InProgress
<1>6. PromisedState[t] = InProgress /\ PromisedState' = [PromisedState EXCEPT ![t] = u.status]
  BY <1>1, <1>2, <1>4, <1>5 DEF PromisedState, TypeOK
<1>7. PICK result \in ResultsOf[t] \cup {"RetryableFailure"}, d \in RetryDelays :
        u = ComputeUpdate(attempt[t], MaxRetries[t], Interval[t], d, result)
  <2>1. attempt[t] = slot[s].attempt
    BY <1>1 DEF ClaimInv, HoldersAreFresh, Live
  <2>2. QED
    BY <1>1, <2>1 DEF UpdateInv
<1>8. u = Promise!ComputeUpdate(attempt[t], MaxRetries[t], Interval[t], d, result)
  <2>1. /\ attempt[t] \in Nat /\ MaxRetries[t] \in Nat \cup {NoRetries} /\ Interval[t] \in Nat
        /\ d \in Nat /\ result \in TaskResult
    BY <1>1, TaskSystemAssumption DEF TypeOK, TaskResult
  <2>2. QED
    BY <1>7, <2>1, SameUpdate
<1>9. Promise!Finish(t)
  BY <1>1, <1>6, <1>8 DEF Promise!Finish, Promise!RunResults, Promise!InProgress, InProgress
<1>10. QED
  BY <1>1, <1>9 DEF Promise!Next

LEMMA NextPromise ==
  ASSUME TypeOK, ClaimInv, UpdateInv, TimeoutsBelowStale, [Next]_vars
  PROVE  [Promise!Next]_<<PromisedState, attempt>>
<1> USE DEF rowVars, envVars
<1>1. CASE \E t \in Tasks : Schedule(t)
  BY <1>1, SchedulePromise
<1>2. CASE \E w \in Workers : PollStep(w) \/ WorkerStep(w)
  <2>1. PICK w \in Workers : PollStep(w) \/ WorkerStep(w)
    BY <1>2
  <2>2. CASE PollMark(w)
    BY <2>2, MarkPromise
  <2>3. CASE Crash(w)
    BY <2>3, PromiseAbandon DEF Crash, DropSlots, IdleSlot
  <2>4. CASE ~PollMark(w) /\ ~Crash(w)
    <3>1. UNCHANGED <<status, attempt, slot>>
      BY <2>1, <2>4
      DEF PollStep, PollAcquire, PollFind, PollPublish, PollFails, PollRelease,
          WorkerStep, Shutdown, Drained, Restart
    <3>2. QED
      BY <3>1, PromiseQuiet
  <2>5. QED
    BY <2>2, <2>3, <2>4
<1>3. CASE \E s \in Slots : ConsumerStep(s)
  <2>0. slot \in [Slots -> Runs]
    BY DEF TypeOK
  <2>1. PICK s \in Slots : ConsumerStep(s)
    BY <1>3
  <2>2. CASE Pop(s)
    BY <2>0, <2>2, PromiseQuiet DEF Pop, IdleSlot, Live
  <2>3. CASE Fetch(s)
    BY <2>3, FetchPromise
  <2>4. CASE HandlerReturns(s) \/ HandlerTimesOut(s)
    <3>1. PICK result : slot[s].pc = "running" /\ EndRun(s, result) /\ UNCHANGED <<status, attempt>>
      BY <2>4 DEF HandlerReturns, HandlerTimesOut
    <3>2. /\ slot'[s].pc = "done" /\ slot'[s].task = slot[s].task
          /\ \A r \in Slots : r # s => slot'[r] = slot[r]
      BY <3>1, EndRunSlot
    <3>3. \A t \in Tasks : Running(t)' <=> Running(t)
      BY <3>1, <3>2 DEF Running, Live
    <3>4. QED
      BY <3>1, <3>3 DEF PromisedState
  <2>5. CASE Persist(s)
    BY <2>5, PersistPromise
  <2>6. CASE RunIsLost(s)
    BY <2>0, <2>6, PromiseAbandon DEF RunIsLost, IdleSlot
  <2>7. QED
    BY <2>1, <2>2, <2>3, <2>4, <2>5, <2>6 DEF ConsumerStep
<1>4. CASE Recover
  BY <1>4, RecoverPromise
<1>5. CASE LockExpires \/ QueueLost
  BY <1>5, PromiseQuiet DEF LockExpires, QueueLost
<1>6. CASE Tick
  <2>1. /\ UNCHANGED <<status, attempt>>
        /\ \A s \in Slots : slot'[s].pc = slot[s].pc /\ slot'[s].task = slot[s].task
    BY <1>6 DEF Tick, TypeOK, Runs
  <2>2. QED
    BY <2>1, PromiseQuiet
<1>7. CASE UNCHANGED vars
  BY <1>7, PromiseQuiet DEF vars
<1>8. QED
  BY <1>1, <1>2, <1>3, <1>4, <1>5, <1>6, <1>7 DEF Next

LEMMA InitPromise == Init => Promise!Init
  BY DEF Init, Promise!Init, PromisedState, Promise!NotCreated, NotCreated, InProgress

\* Poller, queue, claims, recovery, crashes and losses together implement the
\* task system its users are promised: with polls inside their lock and timeouts
\* below the threshold, every behaviour of TaskSystem is one of TaskPromise.
THEOREM PromiseIsKept == InTime /\ Spec => KeepsThePromise
<1>1. Init => UpdateInv
  BY DEF Init, UpdateInv, IdleSlot
<1>2. TypeOK /\ ClaimInv /\ UpdateInv /\ [Next]_vars => UpdateInv'
  BY NextUpdateInv
<1>3. InTime /\ TypeOK /\ ClaimInv /\ UpdateInv /\ [Next]_vars
        => [Promise!Next]_<<PromisedState, attempt>>
  BY NextPromise DEF InTime
<1>4. CASE InTime
  BY <1>1, <1>2, <1>3, <1>4, InitPromise, ClaimInvariant, PTL
  DEF Spec, KeepsThePromise, Promise!Spec
<1>5. QED
  BY <1>4

----------------------------------------------------------------------------
(* At least once: TaskSystem implements TaskDelivery                        *)

\* TaskDelivery's compute_update is the same operator.
LEMMA SameDeliveryUpdate ==
  ASSUME NEW a \in Nat, NEW m \in Nat \cup {NoRetries}, NEW i \in Nat, NEW d \in Nat,
         NEW result \in TaskResult
  PROVE  Delivery!ComputeUpdate(a, m, i, d, result) = ComputeUpdate(a, m, i, d, result)
  BY DEF Delivery!ComputeUpdate, Delivery!OnSuccess, Delivery!OnRetryableFailure,
         Delivery!OnPermanentFailure, Delivery!OnSkip, Delivery!OnTerminate, Delivery!CanRetry,
         Delivery!Update, Delivery!Pending, Delivery!Completed, Delivery!DeadLetter,
         Delivery!NoRetries, Delivery!NoInterval, Delivery!KeepNextRun,
         ComputeUpdate, OnSuccess, OnRetryableFailure, OnPermanentFailure, OnSkip,
         OnTerminate, CanRetry, Update, Pending, Completed, DeadLetter, NoRetries,
         NoInterval, KeepNextRun, TaskResult

\* A task is run by a runner of TaskDelivery exactly while a handler of it is live.
LEMMA ServedIsRunning ==
  ASSUME NEW t \in Tasks
  PROVE  /\ (\E r \in Slots : Jobs[r].task = t) <=> Running(t)
         /\ (\E r \in Slots : Jobs'[r].task = t) <=> Running(t)'
  BY TaskSystemAssumption DEF Jobs, Running, Live

\* A step that moves no row and neither starts, ends nor loses a live run.
LEMMA DeliveryQuiet ==
  ASSUME UNCHANGED <<status, attempt>>,
         \A s \in Slots :
           \/ /\ slot'[s].pc = slot[s].pc /\ slot'[s].task = slot[s].task
              /\ slot'[s].attempt = slot[s].attempt
           \/ ~Live(s) /\ ~Live(s)'
  PROVE  UNCHANGED <<PromisedState, attempt, Jobs>>
<1>1. \A s \in Slots : (Live(s)' <=> Live(s)) /\ Jobs'[s] = Jobs[s]
  BY DEF Live, Jobs
<1>2. \A t \in Tasks : Running(t)' <=> Running(t)
  BY DEF Running, Live
<1>3. Jobs' = Jobs
  BY <1>1 DEF Jobs
<1>4. QED
  BY <1>2, <1>3 DEF PromisedState

\* A step that moves no row and starts no run loses the runs it ends.
LEMMA DeliveryLoss ==
  ASSUME UNCHANGED <<status, attempt>>,
         \A s \in Slots : slot'[s] = slot[s] \/ slot'[s].pc = "idle"
  PROVE  Delivery!Next
<1> DEFINE lost == {s \in Slots : ~Live(s)'}
<1>1. \A s \in Slots : s \notin lost => slot'[s] = slot[s]
  BY DEF Live
<1>2. Jobs' = [r \in Slots |-> IF r \in lost THEN Delivery!NoJob ELSE Jobs[r]]
  BY <1>1 DEF Jobs, Live, Delivery!NoJob, Delivery!Job
<1>3. \A t \in Tasks : Running(t)' => Running(t)
  BY DEF Running, Live
<1>4. PromisedState' = [t \in Tasks |->
                          IF PromisedState[t] = InProgress /\ ~Running(t)'
                            THEN Pending ELSE PromisedState[t]]
  BY <1>3 DEF PromisedState, Pending, InProgress
<1>5. \A t \in Tasks : (\E r \in Slots : Jobs'[r].task = t) <=> Running(t)'
  BY ServedIsRunning
<1>6. Delivery!Lose(lost)
  BY <1>2, <1>4, <1>5 DEF Delivery!Lose, Delivery!InProgress, Delivery!Pending, InProgress, Pending
<1>7. lost \in SUBSET Slots
  OBVIOUS
<1>8. QED
  BY <1>6, <1>7 DEF Delivery!Next

LEMMA ScheduleDelivers ==
  ASSUME TypeOK, NEW t \in Tasks, Schedule(t)
  PROVE  Delivery!Next
<1>1. /\ status[t] = NotCreated /\ status' = [status EXCEPT ![t] = Pending]
      /\ UNCHANGED <<attempt, slot>>
  BY DEF Schedule, rowVars
<1>2. /\ \A x \in Tasks : Running(x)' <=> Running(x)
      /\ Jobs' = Jobs
  BY <1>1 DEF Running, Live, Jobs
<1>3. PromisedState[t] = NotCreated /\ PromisedState' = [PromisedState EXCEPT ![t] = Pending]
  BY <1>1, <1>2 DEF PromisedState, TypeOK, NotCreated, InProgress, Pending
<1>4. QED
  BY <1>1, <1>2, <1>3 DEF Delivery!Next, Delivery!Submit, Delivery!NotCreated, Delivery!Pending,
                          NotCreated, Pending

LEMMA MarkDelivers ==
  ASSUME TypeOK, ReadRowsExist, NEW w \in Workers, PollMark(w)
  PROVE  Delivery!Next
<1> DEFINE ids == Elements(poll[w].batch)
<1>1. /\ poll[w].pc = "found"
      /\ status' = [t \in Tasks |-> IF t \in ids THEN InProgress ELSE status[t]]
      /\ UNCHANGED <<attempt, slot>>
  BY DEF PollMark
<1>2. ids \in SUBSET Tasks /\ \A t \in ids : status[t] # NotCreated
  BY <1>1 DEF TypeOK, Polls, Elements, ReadRowsExist
<1>3. /\ \A x \in Tasks : Running(x)' <=> Running(x)
      /\ Jobs' = Jobs
  BY <1>1 DEF Running, Live, Jobs
<1>4. \A t \in Tasks : (\E r \in Slots : Jobs[r].task = t) <=> Running(t)
  BY ServedIsRunning
<1>5. \A t \in ids : PromisedState[t] # NotCreated
  BY <1>2 DEF PromisedState, NotCreated, Pending
<1>6. PromisedState' = [t \in Tasks |->
                          IF t \notin ids THEN PromisedState[t]
                          ELSE IF \E r \in Slots : Jobs[r].task = t THEN InProgress ELSE Pending]
  BY <1>1, <1>3, <1>4 DEF PromisedState
<1>7. Delivery!Claim(ids)
  BY <1>1, <1>3, <1>5, <1>6 DEF Delivery!Claim, Delivery!InProgress, Delivery!Pending,
     Delivery!NotCreated, InProgress, Pending, NotCreated
<1>8. QED
  BY <1>2, <1>7 DEF Delivery!Next

LEMMA RecoverDelivers ==
  ASSUME TypeOK, Recover
  PROVE  Delivery!Next
<1> DEFINE rows == {t \in Tasks : IsStale(t) /\ Running(t)}
<1>1. /\ status' = [t \in Tasks |-> IF IsStale(t) THEN Pending ELSE status[t]]
      /\ UNCHANGED <<attempt, slot>>
  BY DEF Recover
<1>2. /\ \A x \in Tasks : Running(x)' <=> Running(x)
      /\ Jobs' = Jobs
  BY <1>1 DEF Running, Live, Jobs
<1>3. \A t \in rows : PromisedState[t] = InProgress
  BY DEF PromisedState, IsStale
<1>4. PromisedState' = [t \in Tasks |-> IF t \in rows THEN Pending ELSE PromisedState[t]]
  BY <1>1, <1>2 DEF PromisedState, IsStale, Pending, InProgress
<1>5. Delivery!Reset(rows)
  BY <1>1, <1>2, <1>3, <1>4 DEF Delivery!Reset, Delivery!InProgress, Delivery!Pending, InProgress, Pending
<1>6. rows \in SUBSET Tasks
  OBVIOUS
<1>7. QED
  BY <1>5, <1>6 DEF Delivery!Next

LEMMA FetchDelivers ==
  ASSUME TypeOK, NEW s \in Slots, Fetch(s)
  PROVE  [Delivery!Next]_<<PromisedState, attempt, Jobs>>
<1>0. PICK t \in Tasks : t = slot[s].task
  BY DEF Fetch, TypeOK
<1>1. /\ slot[s].pc = "popped" /\ slot[s].task = t
      /\ UNCHANGED <<status, attempt>>
      /\ \A r \in Slots : r # s => slot'[r] = slot[r]
  BY <1>0 DEF Fetch, TypeOK, rowVars
<1>2. CASE status[t] # InProgress
  <2>1. slot'[s] = IdleSlot
    BY <1>0, <1>2 DEF Fetch, TypeOK
  <2>2. QED
    BY <1>1, <2>1, DeliveryQuiet DEF Live, IdleSlot
<1>3. CASE status[t] = InProgress
  <2>1. slot'[s].pc = "running" /\ slot'[s].task = t /\ slot'[s].attempt = attempt[t]
    BY <1>0, <1>3 DEF Fetch, TypeOK, IdleSlot
  <2>2. Running(t)' /\ \A x \in Tasks : x # t => (Running(x)' <=> Running(x))
    BY <1>1, <2>1 DEF Running, Live
  <2>3. PromisedState[t] \in {Pending, InProgress}
    BY <1>3 DEF PromisedState
  <2>4. PromisedState' = [PromisedState EXCEPT ![t] = InProgress]
    BY <1>1, <1>3, <2>2 DEF PromisedState
  <2>5. /\ Jobs[s] = Delivery!NoJob
        /\ Jobs' = [Jobs EXCEPT ![s] = Delivery!Job(t, attempt[t])]
    BY <1>1, <2>1 DEF Jobs, Live, Delivery!NoJob, Delivery!Job
  <2>6. Delivery!Start(s, t)
    BY <1>1, <2>3, <2>4, <2>5 DEF Delivery!Start, Delivery!InProgress, Delivery!Pending,
       InProgress, Pending
  <2>7. QED
    BY <2>6 DEF Delivery!Next
<1>4. QED
  BY <1>2, <1>3

LEMMA PersistDelivers ==
  ASSUME TypeOK, UpdateInv, NEW s \in Slots, Persist(s)
  PROVE  Delivery!Next
<1> DEFINE t == slot[s].task
           u == slot[s].update
           a == slot[s].attempt
<1>1. /\ slot[s].pc = "done" /\ t \in Tasks /\ u \in TaskUpdate /\ a \in Nat
      /\ status'  = [status EXCEPT ![t] = u.status]
      /\ attempt' = [attempt EXCEPT ![t] = u.attempt]
      /\ slot'    = [slot EXCEPT ![s] = IdleSlot]
  BY DEF Persist, TypeOK, Runs
<1>2. slot'[s] = IdleSlot /\ \A r \in Slots : r # s => slot'[r] = slot[r]
  BY <1>1 DEF TypeOK
<1>3. \A x \in Tasks : x # t => (Running(x)' <=> Running(x))
  BY <1>1, <1>2 DEF Running, Live, IdleSlot
<1>4. u.status # InProgress
  BY <1>1 DEF TaskUpdate, Pending, Completed, DeadLetter, InProgress
<1>5. PromisedState' = [PromisedState EXCEPT ![t] = u.status]
  BY <1>1, <1>3, <1>4 DEF PromisedState, TypeOK
<1>6. /\ Jobs[s] = Delivery!Job(t, a) /\ Jobs[s] # Delivery!NoJob
      /\ Jobs' = [Jobs EXCEPT ![s] = Delivery!NoJob]
  <2>1. Jobs[s] = [task |-> t, attempt |-> a] /\ t # NoTask
    BY <1>1, TaskSystemAssumption DEF Jobs, Live
  <2>2. /\ Jobs'[s] = [task |-> NoTask, attempt |-> 0]
        /\ \A r \in Slots : r # s => Jobs'[r] = Jobs[r]
    BY <1>2 DEF Jobs, Live, IdleSlot
  <2>3. Jobs' = [Jobs EXCEPT ![s] = [task |-> NoTask, attempt |-> 0]]
    BY <2>2 DEF Jobs
  <2>4. QED
    BY <2>1, <2>3 DEF Delivery!NoJob, Delivery!Job
<1>7. PICK result \in ResultsOf[t] \cup {"RetryableFailure"}, d \in RetryDelays :
        u = ComputeUpdate(a, MaxRetries[t], Interval[t], d, result)
  BY <1>1 DEF UpdateInv
<1>8. u = Delivery!ComputeUpdate(a, MaxRetries[t], Interval[t], d, result)
  <2>1. /\ MaxRetries[t] \in Nat \cup {NoRetries} /\ Interval[t] \in Nat
        /\ d \in Nat /\ result \in TaskResult
    BY <1>1, TaskSystemAssumption DEF TaskResult
  <2>2. QED
    BY <1>1, <1>7, <2>1, SameDeliveryUpdate
<1>9. Jobs[s].task = t /\ Jobs[s].attempt = a
  BY <1>6 DEF Delivery!Job
<1>10. Delivery!Finish(s)
  BY <1>1, <1>5, <1>6, <1>8, <1>9 DEF Delivery!Finish, Delivery!RunResults
<1>11. QED
  BY <1>10 DEF Delivery!Next

LEMMA NextDelivers ==
  ASSUME TypeOK, UpdateInv, ReadRowsExist, [Next]_vars
  PROVE  [Delivery!Next]_<<PromisedState, attempt, Jobs>>
<1> USE DEF rowVars, envVars
<1>0. slot \in [Slots -> Runs]
  BY DEF TypeOK
<1>1. CASE \E t \in Tasks : Schedule(t)
  BY <1>1, ScheduleDelivers
<1>2. CASE \E w \in Workers : PollStep(w) \/ WorkerStep(w)
  <2>1. PICK w \in Workers : PollStep(w) \/ WorkerStep(w)
    BY <1>2
  <2>2. CASE PollMark(w)
    BY <2>2, MarkDelivers
  <2>3. CASE Crash(w)
    BY <2>3, DeliveryLoss DEF Crash, DropSlots, IdleSlot
  <2>4. CASE ~PollMark(w) /\ ~Crash(w)
    <3>1. UNCHANGED <<status, attempt, slot>>
      BY <2>1, <2>4
      DEF PollStep, PollAcquire, PollFind, PollPublish, PollFails, PollRelease,
          WorkerStep, Shutdown, Drained, Restart
    <3>2. QED
      BY <3>1, DeliveryQuiet
  <2>5. QED
    BY <2>2, <2>3, <2>4
<1>3. CASE \E s \in Slots : ConsumerStep(s)
  <2>1. PICK s \in Slots : ConsumerStep(s)
    BY <1>3
  <2>2. CASE Pop(s)
    BY <1>0, <2>2, DeliveryQuiet DEF Pop, IdleSlot, Live
  <2>3. CASE Fetch(s)
    BY <2>3, FetchDelivers
  <2>4. CASE HandlerReturns(s) \/ HandlerTimesOut(s)
    <3>1. PICK result : slot[s].pc = "running" /\ EndRun(s, result) /\ UNCHANGED <<status, attempt>>
      BY <2>4 DEF HandlerReturns, HandlerTimesOut
    <3>2. /\ slot'[s].pc = "done" /\ slot'[s].task = slot[s].task
          /\ slot'[s].attempt = slot[s].attempt
          /\ \A r \in Slots : r # s => slot'[r] = slot[r]
      BY <3>1, EndRunSlot
    <3>3. /\ \A t \in Tasks : Running(t)' <=> Running(t)
          /\ \A r \in Slots : Jobs'[r] = Jobs[r]
      BY <3>1, <3>2 DEF Running, Live, Jobs
    <3>4. Jobs' = Jobs
      BY <3>3 DEF Jobs
    <3>5. QED
      BY <3>1, <3>3, <3>4 DEF PromisedState
  <2>5. CASE Persist(s)
    BY <2>5, PersistDelivers
  <2>6. CASE RunIsLost(s)
    BY <1>0, <2>6, DeliveryLoss DEF RunIsLost, IdleSlot
  <2>7. QED
    BY <2>1, <2>2, <2>3, <2>4, <2>5, <2>6 DEF ConsumerStep
<1>4. CASE Recover
  BY <1>4, RecoverDelivers
<1>5. CASE LockExpires \/ QueueLost
  BY <1>5, DeliveryQuiet DEF LockExpires, QueueLost
<1>6. CASE Tick
  <2>1. /\ UNCHANGED <<status, attempt>>
        /\ \A s \in Slots : /\ slot'[s].pc = slot[s].pc /\ slot'[s].task = slot[s].task
                            /\ slot'[s].attempt = slot[s].attempt
    BY <1>0, <1>6 DEF Tick, Runs
  <2>2. QED
    BY <2>1, DeliveryQuiet
<1>7. CASE UNCHANGED vars
  BY <1>7, DeliveryQuiet DEF vars
<1>8. QED
  BY <1>1, <1>2, <1>3, <1>4, <1>5, <1>6, <1>7 DEF Next

\* A row is never uncreated, and a page holds rows that were PENDING.
LEMMA NextReadRows ==
  ASSUME TypeOK, ReadRowsExist, [Next]_vars
  PROVE  ReadRowsExist'
<1> USE DEF rowVars, envVars
<1>0. poll \in [Workers -> Polls] /\ status \in [Tasks -> TaskStatus \cup {NotCreated}]
  BY DEF TypeOK
<1>1. \A t \in Tasks : status[t] # NotCreated => status'[t] # NotCreated
  <2>1. CASE \E s \in Slots : Persist(s)
    BY <2>1 DEF Persist, TypeOK, Runs, TaskUpdate, NotCreated, Pending, Completed, DeadLetter
  <2>2. CASE \E t \in Tasks : Schedule(t)
    BY <1>0, <2>2 DEF Schedule, NotCreated, Pending
  <2>3. CASE \E w \in Workers : PollMark(w)
    BY <2>3 DEF PollMark, NotCreated, InProgress
  <2>4. CASE Recover
    BY <2>4 DEF Recover, NotCreated, Pending
  <2>5. CASE /\ ~Recover /\ ~(\E t \in Tasks : Schedule(t))
             /\ ~(\E s \in Slots : Persist(s)) /\ ~\E w \in Workers : PollMark(w)
    BY <2>5 DEF Next, PollStep, PollAcquire, PollFind, PollPublish, PollFails, PollRelease,
       WorkerStep, Crash, Shutdown, Drained, Restart, ConsumerStep, Pop, Fetch, HandlerReturns,
       HandlerTimesOut, RunIsLost, LockExpires, QueueLost, Tick, vars
  <2>6. QED
    BY <2>1, <2>2, <2>3, <2>4, <2>5
<1>2. ASSUME NEW w \in Workers, poll'[w].pc = "found", NEW t \in Elements(poll'[w].batch),
             ~PollFind(w)
      PROVE  poll[w].pc = "found" /\ t \in Elements(poll[w].batch) /\ t \in Tasks
  <2>1. poll[w].pc = "found" /\ poll'[w].batch = poll[w].batch
    <3>1. CASE \E v \in Workers : PollStep(v)
      <4>1. PICK v \in Workers : PollStep(v)
        BY <3>1
      <4>2. CASE PollFind(v)
        <5>1. w # v /\ poll'[w] = poll[w]
          BY <1>0, <1>2, <4>2 DEF PollFind
        <5>2. QED
          BY <1>2, <5>1
      <4>3. CASE ~PollFind(v)
        <5>1. \A x \in Workers : x # v => poll'[x] = poll[x]
          BY <1>0, <4>1, <4>3 DEF PollStep, PollAcquire, PollMark, PollPublish, PollFails,
             PollRelease
        <5>2. poll'[v].pc # "found"
          BY <1>0, <4>1, <4>3 DEF PollStep, PollAcquire, PollMark, PollPublish, PollFails,
             PollRelease, IdlePoll, Polls
        <5>3. QED
          BY <1>2, <5>1, <5>2
      <4>4. QED
        BY <4>2, <4>3
    <3>2. CASE \E v \in Workers : WorkerStep(v)
      BY <1>0, <1>2, <3>2 DEF WorkerStep, Crash, Shutdown, Drained, Restart, DropPoll, IdlePoll
    <3>3. CASE Tick
      BY <1>0, <1>2, <3>3 DEF Tick, Polls
    <3>4. CASE \/ \E x \in Tasks : Schedule(x)
               \/ \E s \in Slots : ConsumerStep(s)
               \/ Recover \/ QueueLost \/ LockExpires \/ UNCHANGED vars
      BY <1>2, <3>4 DEF Schedule, ConsumerStep, Pop, Fetch, HandlerReturns, HandlerTimesOut,
         Persist, RunIsLost, Recover, QueueLost, LockExpires, vars
    <3>5. QED
      BY <3>1, <3>2, <3>3, <3>4 DEF Next
  <2>2. QED
    BY <1>0, <1>2, <2>1 DEF Elements, Polls
<1>3. ASSUME NEW w \in Workers, poll'[w].pc = "found", NEW t \in Elements(poll'[w].batch),
             PollFind(w)
      PROVE  t \in Tasks /\ status[t] # NotCreated
  <2>1. PICK b \in Pages :
          poll' = [poll EXCEPT ![w] = IF b = <<>> THEN [IdlePoll EXCEPT !.pc = "release"]
                                        ELSE [pc |-> "found", batch |-> b, age |-> 0]]
    BY <1>3 DEF PollFind
  <2>2. t \in Elements(b)
    BY <1>0, <1>3, <2>1 DEF IdlePoll
  <2>3. t \in Selected
    BY <2>2, PageType DEF Elements
  <2>4. QED
    BY <2>3 DEF Selected, Eligible, Pending, NotCreated
<1>4. QED
  BY <1>1, <1>2, <1>3 DEF ReadRowsExist

\* With no assumption on time: what the poller, the queue, the consumers and
\* recovery add up to is delivery at least once, whatever lock expires, whatever
\* run outlives the threshold and whatever is lost.
THEOREM DeliveryIsAtLeastOnce == Spec => DeliversAtLeastOnce
<1>1. Init => UpdateInv /\ ReadRowsExist
  BY DEF Init, UpdateInv, ReadRowsExist, IdleSlot, IdlePoll
<1>2. Init => Delivery!Init
  BY DEF Init, Delivery!Init, PromisedState, Jobs, Live, IdleSlot, Delivery!NotCreated,
         NotCreated, InProgress, Delivery!NoJob, Delivery!Job
<1>3. TypeOK /\ UpdateInv /\ ReadRowsExist /\ [Next]_vars => UpdateInv' /\ ReadRowsExist'
  BY NextUpdateInv, NextReadRows
<1>4. TypeOK /\ UpdateInv /\ ReadRowsExist /\ [Next]_vars
        => [Delivery!Next]_<<PromisedState, attempt, Jobs>>
  BY NextDelivers
<1>5. QED
  BY <1>1, <1>2, <1>3, <1>4, TypeCorrect, PTL DEF Spec, DeliversAtLeastOnce, Delivery!Spec
=============================================================================
