----------------------------- MODULE TaskSystem ----------------------------
(***************************************************************************)
(* The outbox task system: the tasks table in Postgres, the id queue in     *)
(* Redis, and the workers' loops over them - the outbox poller (poller.rs), *)
(* the consumer (consumer.rs, handlers/mod.rs) and stale recovery           *)
(* (recovery.rs).                                                           *)
(*                                                                          *)
(* Every await of the code is a step boundary, so any two loops of any two  *)
(* workers interleave between a read and the write it leads to.  Time is a  *)
(* Tick; ages and delays are counted from now in ticks, saturating, so that *)
(* behaviours need not end.                                                 *)
(***************************************************************************)
EXTENDS TaskOutcome, Sequences, FiniteSets

CONSTANTS
  Tasks,         \* task ids; numbers, because find_pending breaks ties by id
  Workers,       \* worker processes
  Slots,         \* consumer permits (WORKER_CONCURRENCY per worker)
  WorkerOf,      \* the worker a permit belongs to
  NoTask,        \* not a task id
  Free,          \* not a worker: the poller lock's key is absent

  Keys,          \* ordering keys
  NoKey,         \* ordering_key = NULL
  KeyOf,         \* ordering_key of each task
  MaxRetries,    \* max_retries of each task's type
  Interval,      \* execution_interval, in ticks
  Timeout,       \* processing_timeout, in ticks
  ResultsOf,     \* the TaskResults the task's handler returns
  RetryDelays,   \* the retry delays, in ticks (their values: see TaskRuns)

  Stale,         \* STALE_RECOVERY_INTERVAL, in ticks
  BatchSize,     \* BATCH_SIZE of one poll
  MaxLate,       \* bound: how far behind its next_run_at a row's lateness is told apart

  MaxWait,       \* environment: longest time from the poll to the fetch (Unbounded: any)
  MaxOverruns,   \* environment: polls that outlive the lock's TTL
  MaxFaults,     \* environment: crashes, shutdowns, losses and failed calls
  MaxQueue       \* bound: ids in the Redis list

\* A wait that MaxWait does not limit: no age gets that far.
Unbounded == Stale + 2

ASSUME TaskSystemAssumption ==
  /\ Tasks \subseteq Nat
  /\ IsFiniteSet(Tasks)
  /\ NoTask \notin Tasks
  /\ Free \notin Workers
  /\ IsFiniteSet(Workers)
  /\ WorkerOf \in [Slots -> Workers]
  /\ NoKey \notin Keys
  /\ KeyOf \in [Tasks -> Keys \cup {NoKey}]
  /\ MaxRetries \in [Tasks -> Nat \cup {NoRetries}]
  /\ Interval \in [Tasks -> Nat]
  /\ Timeout \in [Tasks -> Nat]
  /\ ResultsOf \in [Tasks -> SUBSET TaskResult]
  /\ RetryDelays \subseteq Nat
  /\ Stale \in Nat
  /\ BatchSize \in Nat \ {0}
  /\ MaxLate \in Nat
  /\ MaxWait \in Nat
  /\ MaxOverruns \in Nat
  /\ MaxFaults \in Nat
  /\ MaxQueue \in Nat

VARIABLES
  \* the tasks table, one function per column
  status,     \* NotCreated, or the status column
  attempt,    \* attempt_count
  due,        \* next_run_at, in ticks from now (negative: overdue)
  age,        \* ticks since started_at; 0 unless IN_PROGRESS (see Persist)
  \* Redis
  lock,       \* holder of benri:task:poller:lock (its token), or Free
  queue,      \* benri:tasks:queue, next to pop first
  \* the worker processes
  mode,       \* up, draining after SIGTERM, down
  poll,       \* each worker's poller
  slot,       \* each permit's run
  \* the environment
  faults, overruns

rowVars  == <<status, attempt, due, age>>
envVars  == <<faults, overruns>>
vars     == <<status, attempt, due, age, lock, queue, mode, poll, slot, faults, overruns>>

NotCreated == "NOT_CREATED"

IdlePoll == [pc |-> "idle", batch |-> <<>>, age |-> 0]
IdleSlot == [pc |-> "idle", task |-> NoTask, attempt |-> 0, elapsed |-> 0,
             update |-> Update(Pending, 0, 0)]

Polls == [pc    : {"idle", "locked", "found", "marked", "release"},
          batch : Seq(Tasks),
          age   : Nat]
Runs  == [pc      : {"idle", "popped", "running", "done"},
          task    : Tasks \cup {NoTask},
          attempt : Nat,
          elapsed : Nat,
          update  : TaskUpdate]

Elements(s) == {s[i] : i \in DOMAIN s}
Distinct(s) == \A i, j \in DOMAIN s : s[i] = s[j] => i = j

Init ==
  /\ status   = [t \in Tasks |-> NotCreated]
  /\ attempt  = [t \in Tasks |-> 0]
  /\ due      = [t \in Tasks |-> 0]
  /\ age      = [t \in Tasks |-> 0]
  /\ lock     = Free
  /\ queue    = <<>>
  /\ mode     = [w \in Workers |-> "up"]
  /\ poll     = [w \in Workers |-> IdlePoll]
  /\ slot     = [s \in Slots |-> IdleSlot]
  /\ faults   = 0
  /\ overruns = 0

Fault == faults < MaxFaults /\ faults' = faults + 1

----------------------------------------------------------------------------
(* Scheduling (domain/src/task/scheduler.rs)                               *)

\* build_pending_task: run_at is None at every call site, so the row is due.
Schedule(t) ==
  /\ status[t] = NotCreated
  /\ status' = [status EXCEPT ![t] = Pending]
  /\ UNCHANGED <<attempt, due, age, lock, queue, mode, poll, slot, envVars>>

----------------------------------------------------------------------------
(* The outbox poller                                                       *)

\* Mutant: the blocked_keys CTE is lost.
KeyBlocked_Never(t) == FALSE

KeyBlocked(t) ==
  /\ KeyOf[t] # NoKey
  /\ \E u \in Tasks : KeyOf[u] = KeyOf[t] /\ status[u] = InProgress

Eligible == {t \in Tasks : status[t] = Pending /\ due[t] <= 0 /\ ~KeyBlocked(t)}

\* ORDER BY next_run_at, id
Before(t, u) == due[t] < due[u] \/ (due[t] = due[u] /\ t < u)

\* keyed_dedup and the unkeyed eligible rows
Selected ==
  {t \in Eligible : KeyOf[t] # NoKey =>
                      \A u \in Eligible : KeyOf[u] = KeyOf[t] => ~Before(u, t)}

\* What find_pending returns: Selected in order, cut at the limit.
IsPage(b) ==
  /\ \A i, j \in DOMAIN b : i < j => Before(b[i], b[j])
  /\ \A t \in Selected \ Elements(b) :
       Len(b) = BatchSize /\ \A i \in DOMAIN b : Before(b[i], t)

Pages == {b \in UNION {[1..n -> Selected] : n \in 0..Cardinality(Selected)} :
            Len(b) <= BatchSize /\ IsPage(b)}

PollAcquire(w) ==
  /\ mode[w] = "up"
  /\ poll[w].pc = "idle"
  /\ lock = Free
  /\ lock' = w
  /\ poll' = [poll EXCEPT ![w].pc = "locked"]
  /\ UNCHANGED <<rowVars, queue, mode, slot, envVars>>

\* now is read just before the query; its age is what started_at will have.
PollFind(w) ==
  /\ poll[w].pc = "locked"
  /\ \E b \in Pages :
       poll' = [poll EXCEPT ![w] =
                  IF b = <<>> THEN [IdlePoll EXCEPT !.pc = "release"]
                              ELSE [pc |-> "found", batch |-> b, age |-> 0]]
  /\ UNCHANGED <<rowVars, lock, queue, mode, slot, envVars>>

\* mark_in_progress: by id only, whatever the rows' status is by now.
PollMark(w) ==
  /\ poll[w].pc = "found"
  /\ LET ids == Elements(poll[w].batch) IN
       /\ status' = [t \in Tasks |-> IF t \in ids THEN InProgress ELSE status[t]]
       /\ age'    = [t \in Tasks |-> IF t \in ids THEN poll[w].age ELSE age[t]]
  /\ poll' = [poll EXCEPT ![w].pc = "marked", ![w].age = 0]
  /\ UNCHANGED <<attempt, due, lock, queue, mode, slot, envVars>>

PollPublish(w) ==
  /\ poll[w].pc = "marked"
  /\ Len(queue) + Len(poll[w].batch) <= MaxQueue
  /\ queue' = queue \o poll[w].batch
  /\ poll' = [poll EXCEPT ![w] = [IdlePoll EXCEPT !.pc = "release"]]
  /\ UNCHANGED <<rowVars, lock, mode, slot, envVars>>

\* find_pending, mark_in_progress or publish fails: do_poll returns its error.
PollFails(w) ==
  /\ poll[w].pc \in {"locked", "found", "marked"}
  /\ Fault
  /\ poll' = [poll EXCEPT ![w] = [IdlePoll EXCEPT !.pc = "release"]]
  /\ UNCHANGED <<rowVars, lock, queue, mode, slot, overruns>>

\* release deletes the key only if the token is still this poller's; a failed
\* call is ignored and leaves the key to its TTL.
PollRelease(w) ==
  /\ poll[w].pc = "release"
  /\ \/ /\ lock' = IF lock = w THEN Free ELSE lock
        /\ UNCHANGED faults
     \/ /\ Fault
        /\ UNCHANGED lock
  /\ poll' = [poll EXCEPT ![w] = IdlePoll]
  /\ UNCHANGED <<rowVars, queue, mode, slot, overruns>>

\* The lock's TTL: it ends an abandoned lock, and a live poller's if the poll
\* takes longer than LOCK_TTL_SECS.
LockExpires ==
  /\ lock # Free
  /\ IF poll[lock].pc = "idle"
       THEN UNCHANGED overruns
       ELSE overruns < MaxOverruns /\ overruns' = overruns + 1
  /\ lock' = Free
  /\ UNCHANGED <<rowVars, queue, mode, poll, slot, faults>>

----------------------------------------------------------------------------
(* The consumer                                                            *)

\* RPOP, once a permit is held: process_one is spawned with the id.
Pop(s) ==
  /\ mode[WorkerOf[s]] = "up"
  /\ slot[s].pc = "idle"
  /\ queue # <<>>
  /\ queue' = Tail(queue)
  /\ slot' = [slot EXCEPT ![s] = [IdleSlot EXCEPT !.pc = "popped", !.task = Head(queue)]]
  /\ UNCHANGED <<rowVars, lock, mode, poll, envVars>>

\* fetch_in_progress_task: the run keeps the row it read for its whole life.
Fetch(s) ==
  LET t == slot[s].task IN
  /\ slot[s].pc = "popped"
  /\ slot' = [slot EXCEPT ![s] =
                IF status[t] = InProgress
                  THEN [IdleSlot EXCEPT !.pc = "running", !.task = t, !.attempt = attempt[t]]
                  ELSE IdleSlot]
  /\ UNCHANGED <<rowVars, lock, queue, mode, poll, envVars>>

\* The run of s ends with result; compute_update works on the row it fetched.
EndRun(s, result) ==
  LET t == slot[s].task IN
  \E d \in RetryDelays :
    slot' = [slot EXCEPT ![s] =
               [@ EXCEPT
                  !.pc      = "done",
                  !.elapsed = 0,
                  !.update  = ComputeUpdate(slot[s].attempt, MaxRetries[t], Interval[t], d, result)]]

HandlerReturns(s) ==
  /\ slot[s].pc = "running"
  /\ \E result \in ResultsOf[slot[s].task] : EndRun(s, result)
  /\ UNCHANGED <<rowVars, lock, queue, mode, poll, envVars>>

\* Mutant: handlers are awaited without a timeout.
HandlerTimesOut_Never(s) == FALSE /\ UNCHANGED vars

\* run_with_timeout: the handler future is dropped, the result is retryable.
HandlerTimesOut(s) ==
  /\ slot[s].pc = "running"
  /\ slot[s].elapsed >= Timeout[slot[s].task]
  /\ EndRun(s, "RetryableFailure")
  /\ UNCHANGED <<rowVars, lock, queue, mode, poll, envVars>>

\* batch_update: by id only; next_run_at is COALESCEd.  started_at is left as it
\* is, but it is read only under IN_PROGRESS and written on every entry to it,
\* so the model keeps 0 for a row that is not IN_PROGRESS.
Persist(s) ==
  LET t == slot[s].task
      u == slot[s].update
  IN
  /\ slot[s].pc = "done"
  /\ status'  = [status EXCEPT ![t] = u.status]
  /\ attempt' = [attempt EXCEPT ![t] = u.attempt]
  /\ due'     = [due EXCEPT ![t] = IF u.next = KeepNextRun THEN @ ELSE u.next]
  /\ age'     = [age EXCEPT ![t] = 0]
  /\ slot'    = [slot EXCEPT ![s] = IdleSlot]
  /\ UNCHANGED <<lock, queue, mode, poll, envVars>>

\* find_by_id fails, the handler panics inside the JoinSet, or batch_update
\* fails: each is logged at most, and the row stays as it is.
RunIsLost(s) ==
  /\ slot[s].pc # "idle"
  /\ Fault
  /\ slot' = [slot EXCEPT ![s] = IdleSlot]
  /\ UNCHANGED <<rowVars, lock, queue, mode, poll, overruns>>

----------------------------------------------------------------------------
(* Stale recovery.  Its lock is taken and released around ONE statement     *)
(* that nothing else can observe half done, so the loop body is one step;   *)
(* a failed call does nothing and the loop comes round again.               *)

\* Mutants: the threshold is one tick short; only rows that have failed before
\* are looked at.
IsStale_TickShort(t) == status[t] = InProgress /\ age[t] >= Stale
IsStale_RetriedOnly(t) == status[t] = InProgress /\ age[t] > Stale /\ attempt[t] > 0

IsStale(t) == status[t] = InProgress /\ age[t] > Stale

\* Mutant: the reset counts as an attempt.
Recover_Counts ==
  /\ \E w \in Workers : mode[w] = "up"
  /\ \E t \in Tasks : IsStale(t)
  /\ status'  = [t \in Tasks |-> IF IsStale(t) THEN Pending ELSE status[t]]
  /\ attempt' = [t \in Tasks |-> IF IsStale(t) THEN attempt[t] + 1 ELSE attempt[t]]
  /\ age'     = [t \in Tasks |-> IF IsStale(t) THEN 0 ELSE age[t]]
  /\ UNCHANGED <<due, lock, queue, mode, poll, slot, envVars>>

\* reset_stale: attempt_count and next_run_at are not touched.
Recover ==
  /\ \E w \in Workers : mode[w] = "up"
  /\ \E t \in Tasks : IsStale(t)
  /\ status' = [t \in Tasks |-> IF IsStale(t) THEN Pending ELSE status[t]]
  /\ age'    = [t \in Tasks |-> IF IsStale(t) THEN 0 ELSE age[t]]
  /\ UNCHANGED <<attempt, due, lock, queue, mode, poll, slot, envVars>>

----------------------------------------------------------------------------
(* The worker process (worker/src/main.rs) and Redis                       *)

DropPoll(w)  == poll' = [poll EXCEPT ![w] = IdlePoll]
DropSlots(w) == slot' = [s \in Slots |-> IF WorkerOf[s] = w THEN IdleSlot ELSE slot[s]]

\* SIGTERM.  The consumer's select may drop a pop that Redis already served.
Shutdown(w) ==
  /\ mode[w] = "up"
  /\ Fault
  /\ mode' = [mode EXCEPT ![w] = "draining"]
  /\ \/ UNCHANGED queue
     \/ /\ queue # <<>>
        /\ \E s \in Slots : WorkerOf[s] = w /\ slot[s].pc = "idle"
        /\ queue' = Tail(queue)
  /\ UNCHANGED <<rowVars, lock, poll, slot, overruns>>

\* The poll under way and the runs in flight have ended; the process exits.
Drained(w) ==
  /\ mode[w] = "draining"
  /\ poll[w].pc = "idle"
  /\ \A s \in Slots : WorkerOf[s] = w => slot[s].pc = "idle"
  /\ mode' = [mode EXCEPT ![w] = "down"]
  /\ UNCHANGED <<rowVars, lock, queue, poll, slot, envVars>>

\* A crash, or the second signal's forced exit: everything in memory is gone,
\* the lock stays until its TTL.
Crash(w) ==
  /\ mode[w] # "down"
  /\ Fault
  /\ mode' = [mode EXCEPT ![w] = "down"]
  /\ DropPoll(w)
  /\ DropSlots(w)
  /\ UNCHANGED <<rowVars, lock, queue, overruns>>

Restart(w) ==
  /\ mode[w] = "down"
  /\ mode' = [mode EXCEPT ![w] = "up"]
  /\ UNCHANGED <<rowVars, lock, queue, poll, slot, envVars>>

\* "queue is ephemeral": Redis restarts without its list.
QueueLost ==
  /\ queue # <<>>
  /\ Fault
  /\ queue' = <<>>
  /\ UNCHANGED <<rowVars, lock, mode, poll, slot, overruns>>

----------------------------------------------------------------------------
(* Time                                                                     *)

Marked(w) == poll[w].pc = "marked"

\* Tasks whose id is on its way from a poll to the fetch.
Waiting ==
  {t \in Tasks :
     \/ t \in Elements(queue)
     \/ \E w \in Workers : Marked(w) /\ t \in Elements(poll[w].batch)
     \/ \E s \in Slots : slot[s].pc = "popped" /\ slot[s].task = t}

\* The environment assumption MaxWait stands for: between the poll's now and
\* the fetch, and between the end of a run and its batch_update, no more than
\* MaxWait passes in all.
Punctual ==
  /\ \A t \in Waiting : age[t] < MaxWait
  /\ \A w \in Workers : poll[w].pc = "found" => poll[w].age < MaxWait
  /\ \A s \in Slots : slot[s].pc = "done" =>
                        age[slot[s].task] < MaxWait + Timeout[slot[s].task]

\* tokio's timer: no run is still going after its processing_timeout.
\* Mutant: the clock runs on while a timeout is overdue.
TimersFired_Ignored == TRUE

TimersFired ==
  \A s \in Slots : slot[s].pc = "running" => slot[s].elapsed < Timeout[slot[s].task]

Older(a) == LesserOf(a + 1, Stale + 1)

Tick ==
  /\ Punctual
  /\ TimersFired
  /\ due'  = [t \in Tasks |-> IF status[t] = Pending /\ due[t] > -MaxLate
                                THEN due[t] - 1 ELSE due[t]]
  /\ age'  = [t \in Tasks |-> IF status[t] = InProgress THEN Older(age[t]) ELSE age[t]]
  /\ poll' = [w \in Workers |-> IF poll[w].pc = "found"
                                  THEN [poll[w] EXCEPT !.age = Older(@)] ELSE poll[w]]
  /\ slot' = [s \in Slots |-> IF slot[s].pc = "running"
                                THEN [slot[s] EXCEPT !.elapsed = @ + 1] ELSE slot[s]]
  /\ UNCHANGED <<status, attempt, lock, queue, mode, envVars>>

----------------------------------------------------------------------------

PollStep(w) ==
  \/ PollAcquire(w)
  \/ PollFind(w)
  \/ PollMark(w)
  \/ PollPublish(w)
  \/ PollFails(w)
  \/ PollRelease(w)

ConsumerStep(s) ==
  \/ Pop(s)
  \/ Fetch(s)
  \/ HandlerReturns(s)
  \/ HandlerTimesOut(s)
  \/ Persist(s)
  \/ RunIsLost(s)

WorkerStep(w) ==
  \/ Shutdown(w)
  \/ Drained(w)
  \/ Crash(w)
  \/ Restart(w)

Next ==
  \/ \E t \in Tasks : Schedule(t)
  \/ \E w \in Workers : PollStep(w) \/ WorkerStep(w)
  \/ \E s \in Slots : ConsumerStep(s)
  \/ LockExpires
  \/ Recover
  \/ QueueLost
  \/ Tick

\* The loops go on, timers fire and a dead worker is started again; nothing
\* promises that a task is scheduled, that a handler returns before its
\* timeout, or that anything fails.
Fairness ==
  /\ \A w \in Workers :
       /\ WF_vars(PollFind(w)) /\ WF_vars(PollMark(w)) /\ WF_vars(PollPublish(w))
       /\ WF_vars(PollRelease(w))
       /\ WF_vars(Drained(w)) /\ WF_vars(Restart(w))
  /\ WF_vars(\E w \in Workers : PollAcquire(w))
  /\ \A s \in Slots :
       /\ WF_vars(Fetch(s)) /\ WF_vars(HandlerTimesOut(s)) /\ WF_vars(Persist(s))
  /\ WF_vars(\E s \in Slots : Pop(s))
  /\ WF_vars(LockExpires)
  /\ WF_vars(Recover)
  /\ WF_vars(Tick)

Spec     == Init /\ [][Next]_vars
FairSpec == Spec /\ Fairness

----------------------------------------------------------------------------
(* Properties                                                              *)

TypeOK ==
  /\ status \in [Tasks -> TaskStatus \cup {NotCreated}]
  /\ attempt \in [Tasks -> Nat]
  /\ due \in [Tasks -> Int]
  /\ age \in [Tasks -> Nat]
  /\ lock \in Workers \cup {Free}
  /\ queue \in Seq(Tasks)
  /\ mode \in [Workers -> {"up", "draining", "down"}]
  /\ poll \in [Workers -> Polls]
  /\ slot \in [Slots -> Runs]
  /\ \A s \in Slots : slot[s].pc # "idle" => slot[s].task \in Tasks
  /\ faults \in Nat
  /\ overruns \in Nat

SameKey(t, u) == t = u \/ (KeyOf[t] = KeyOf[u] /\ KeyOf[t] # NoKey)

\* "Tasks with the same ordering key run sequentially": at most one row of an
\* ordering key is IN_PROGRESS.  find_pending checks it in one query and
\* mark_in_progress writes in another, so it rests on the poller lock alone.
OneInProgressPerKey ==
  \A t, u \in Tasks :
    status[t] = InProgress /\ status[u] = InProgress /\ SameKey(t, u) => t = u

\* Where a poll does outlive its lock, each such poll may add one row to a key,
\* and no more: the damage of an expired lock does not spread.
InProgressRows(k) == {t \in Tasks : KeyOf[t] = k /\ status[t] = InProgress}

KeysWithinOverruns == \A k \in Keys : Cardinality(InProgressRows(k)) <= 1 + overruns

\* A run that can still act on its task.
Live(s) == slot[s].pc \in {"running", "done"}

\* The same promise for the handlers themselves: never two live runs of one
\* task, nor of two tasks that share a key.
SequentialRuns ==
  \A r, s \in Slots :
    Live(r) /\ Live(s) /\ SameKey(slot[r].task, slot[s].task) => r = s

\* What a run is about to write over is the claim it was started from: its row
\* is IN_PROGRESS still, with the attempt_count the run has read.
RunsOwnTheirRow ==
  \A s \in Slots :
    Live(s) => /\ status[slot[s].task] = InProgress
               /\ attempt[slot[s].task] = slot[s].attempt

\* COMPLETED and DEAD_LETTER are final: no poll, recovery or late result
\* brings a finished task back.
FinalStatusIsFinal ==
  [][\A t \in Tasks : status[t] \in Terminal => status'[t] = status[t]]_vars

\* Recovery never takes a task from a handler that is still at work
\* (reset_stale's doc comment, and StaleRecovery's).
LiveRunsAreNotReset ==
  [][\A t \in Tasks :
       status[t] = InProgress /\ status'[t] = Pending /\ slot' = slot
         => ~\E s \in Slots : slot[s].pc = "running" /\ slot[s].task = t]_vars

Budget(t) == IF MaxRetries[t] = NoRetries THEN 0 ELSE MaxRetries[t]

\* The retry budget survives every interleaving: no row, and no update on its
\* way to a row, ever counts more attempts than the task's type allows.
AttemptsWithinBudget ==
  /\ \A t \in Tasks : attempt[t] <= Budget(t)
  /\ \A s \in Slots : slot[s].pc = "done" => slot[s].update.attempt <= Budget(slot[s].task)

\* What a task is to those who schedule and handle it: it runs while a handler
\* does; whoever else holds its claim, it waits.
Running(t)   == \E s \in Slots : Live(s) /\ slot[s].task = t
PromisedState == [t \in Tasks |-> IF status[t] = InProgress /\ ~Running(t) THEN Pending
                                                                        ELSE status[t]]

Promise == INSTANCE TaskPromise WITH state <- PromisedState, used <- attempt

\* With polls inside their lock and timeouts below the threshold, all the
\* machinery adds up to TaskPromise: runs of a key follow one another, each
\* result reaches the row its run was started from, a run that is lost leaves
\* the row as it was, and attempt_count counts answers and nothing else.
KeepsThePromise == Promise!Spec

\* What the permits hold, as the runners of TaskDelivery.
Jobs == [s \in Slots |-> IF Live(s) THEN [task |-> slot[s].task, attempt |-> slot[s].attempt]
                                   ELSE [task |-> NoTask, attempt |-> 0]]

Delivery == INSTANCE TaskDelivery WITH
              state <- PromisedState, used <- attempt, job <- Jobs, Runners <- Slots

\* Without any such assumption - locks that expire under a poll, waits and runs
\* beyond the threshold, crashes, losses - it still is delivery at least once: a
\* row counts an attempt or ends only by a run that was started from it.
DeliversAtLeastOnce == Delivery!Spec

\* No claim is forgotten: whatever crashes, is lost or fails between marking a
\* row and writing its result, the row leaves IN_PROGRESS again.
ClaimsEnd ==
  \A t \in Tasks : status[t] = InProgress ~> status[t] # InProgress

\* A one-shot task that is scheduled is completed or dead-lettered in the end.
ScheduledTasksSettle ==
  \A t \in Tasks :
    (status[t] = Pending /\ Interval[t] = NoInterval) ~> status[t] \in Terminal

\* A worker told to stop does stop: the drain waits for runs that all end.
ShutdownEnds ==
  \A w \in Workers : mode[w] = "draining" ~> mode[w] # "draining"

----------------------------------------------------------------------------
(* The inductive invariants the proofs in TaskSystem_proofs rest on         *)

\* No poll outlives its lock.
PollsFitTheTTL == MaxOverruns = 0

\* No task type's timeout, with the wait allowed before it, reaches the stale
\* threshold: what reset_stale's comment asks of every task type.
TimeoutsBelowStale == \A t \in Tasks : MaxWait + Timeout[t] <= Stale

\* A poller that is inside poll_once holds the lock; a batch that is about to
\* be marked has one row per key, and no row of those keys is IN_PROGRESS.
PollInv ==
  /\ \A w \in Workers : poll[w].pc # "idle" => lock = w
  /\ \A w \in Workers : poll[w].pc = "found" =>
       /\ \A t \in Elements(poll[w].batch), u \in Tasks :
            status[u] = InProgress => ~SameKey(t, u)
       /\ \A t, u \in Elements(poll[w].batch) : SameKey(t, u) => t = u
  /\ OneInProgressPerKey

Busy(s) == slot[s].pc # "idle"

\* An IN_PROGRESS row has at most one holder: a place in the queue, a batch on
\* its way there, or a permit.
OneHolder ==
  /\ Distinct(queue)
  /\ \A w \in Workers : poll[w].pc \in {"found", "marked"} => Distinct(poll[w].batch)
  /\ \A w \in Workers : Marked(w) => Elements(poll[w].batch) \cap Elements(queue) = {}
  /\ \A s \in Slots : Busy(s) =>
       /\ slot[s].task \notin Elements(queue)
       /\ \A w \in Workers : Marked(w) => slot[s].task \notin Elements(poll[w].batch)
       /\ \A r \in Slots : Busy(r) /\ slot[r].task = slot[s].task => r = s

\* The holder's row is IN_PROGRESS, and not yet stale; a batch that is not yet
\* marked is still PENDING.
HoldersAreFresh ==
  /\ \A t \in Waiting : status[t] = InProgress /\ age[t] <= MaxWait
  /\ \A w \in Workers : poll[w].pc = "found" =>
       /\ poll[w].age <= MaxWait
       /\ \A t \in Elements(poll[w].batch) : status[t] = Pending
  /\ \A s \in Slots : Live(s) =>
       /\ status[slot[s].task] = InProgress
       /\ attempt[slot[s].task] = slot[s].attempt
       /\ age[slot[s].task] <= MaxWait + Timeout[slot[s].task]
  /\ \A s \in Slots : slot[s].pc = "running" =>
       /\ slot[s].elapsed <= Timeout[slot[s].task]
       /\ age[slot[s].task] <= MaxWait + slot[s].elapsed

ClaimInv == PollInv /\ OneHolder /\ HoldersAreFresh

\* A run counts on from a row within its budget.
BudgetInv ==
  /\ AttemptsWithinBudget
  /\ \A s \in Slots : slot[s].pc = "running" => slot[s].attempt <= Budget(slot[s].task)

\* What a finished run is about to write is an answer to the row it has read.
UpdateInv ==
  \A s \in Slots : slot[s].pc = "done" =>
    LET t == slot[s].task IN
    \E result \in ResultsOf[t] \cup {"RetryableFailure"}, d \in RetryDelays :
      slot[s].update = ComputeUpdate(slot[s].attempt, MaxRetries[t], Interval[t], d, result)

\* What a poll has read are rows that exist.
ReadRowsExist ==
  \A w \in Workers : poll[w].pc = "found" =>
    \A t \in Elements(poll[w].batch) : status[t] # NotCreated

\* The pollers that go on without the lock; each of them has outlived it once.
Overstaying == {w \in Workers : poll[w].pc # "idle" /\ lock # w}

\* The pollers that have read a page with a row of the key, and will mark it.
AboutToMark(k) ==
  {w \in Workers : poll[w].pc = "found" /\ \E t \in Elements(poll[w].batch) : KeyOf[t] = k}

OverrunInv ==
  /\ Cardinality(Overstaying) <= overruns
  /\ \A k \in Keys : Cardinality(InProgressRows(k)) + Cardinality(AboutToMark(k)) <= 1 + overruns
  /\ \A w \in Workers : poll[w].pc = "found" =>
       \A t, u \in Elements(poll[w].batch) : SameKey(t, u) => t = u
=============================================================================
