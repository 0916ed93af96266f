---------------------------- MODULE SystemTasks ----------------------------
(***************************************************************************)
(* The recurring system task CleanupStaleVideos and what keeps it going:     *)
(* the system task checker (system_checker.rs), which creates its row when    *)
(* none is active, and the worker process around the four loops (main.rs),    *)
(* which starts them, tells them to stop and joins them - and which goes on    *)
(* without a loop that has panicked.                                          *)
(*                                                                          *)
(* The rows live by TaskPromise: what TaskSystem implements is assumed here,  *)
(* with the loops each of its steps needs.                                    *)
(***************************************************************************)
EXTENDS TaskOutcome, FiniteSets

CONSTANTS
  Rows,         \* rows of the task type; one that is terminal may be used again
  Workers,
  Free,         \* not a worker: the checker lock's key is absent
  Nobody,       \* not a worker: no handler has the row
  Retries,      \* max_retries of the task type
  Answers,      \* the TaskResults its handler returns
  MaxOverruns,  \* environment: checks that outlive the lock's TTL
  MaxPanics,    \* environment: loops that panic
  MaxFaults     \* environment: signals, crashes, losses and failed calls

ASSUME SystemTasksAssumption ==
  /\ IsFiniteSet(Rows)
  /\ IsFiniteSet(Workers)
  /\ Free \notin Workers
  /\ Nobody \notin Workers
  /\ Retries \in Nat
  /\ Answers \subseteq TaskResult
  /\ MaxOverruns \in Nat
  /\ MaxPanics \in Nat
  /\ MaxFaults \in Nat

VARIABLES
  state, used,  \* the rows, as TaskPromise has them
  claim,        \* the worker whose handler has the row
  stuck,        \* rows marked IN_PROGRESS that no handler has
  lock,         \* holder of benri:task:system_checker:lock (its token), or Free
  mode,         \* of each worker process: up or down
  told,         \* what its shutdown watch channel holds
  loop,         \* its four loops, as their JoinHandles will tell
  check,        \* where its checker is
  faults, panics, overruns

rowVars == <<state, used, claim, stuck>>
envVars == <<faults, panics, overruns>>
vars    == <<state, used, claim, stuck, lock, mode, told, loop, check, faults, panics, overruns>>

\* ordering_key is one constant and execution_interval a day: every row recurs.
SweepKey == "cleanup_stale_videos"

Row == INSTANCE TaskPromise WITH
         Tasks       <- Rows,
         KeyOf       <- [r \in Rows |-> SweepKey],
         NoKey       <- Nobody,
         MaxRetries  <- [r \in Rows |-> Retries],
         Interval    <- [r \in Rows |-> 1],
         ResultsOf   <- [r \in Rows |-> Answers],
         RetryDelays <- {0}

NotCreated == Row!NotCreated

Loops == {"consumer", "poller", "recovery", "checker"}
AllOn == [l \in Loops |-> "on"]

On(l) == \E w \in Workers : mode[w] = "up" /\ loop[w][l] = "on"

\* status IN ('PENDING', 'IN_PROGRESS')
Active == {r \in Rows : state[r] \in {Pending, InProgress}}

Init ==
  /\ Row!Init
  /\ claim    = [r \in Rows |-> Nobody]
  /\ stuck    = {}
  /\ lock     = Free
  /\ mode     = [w \in Workers |-> "up"]
  /\ told     = [w \in Workers |-> FALSE]
  /\ loop     = [w \in Workers |-> AllOn]
  /\ check    = [w \in Workers |-> "sleep"]
  /\ faults   = 0
  /\ panics   = 0
  /\ overruns = 0

Fault == faults < MaxFaults /\ faults' = faults + 1 /\ UNCHANGED <<panics, overruns>>

----------------------------------------------------------------------------
(* The system task checker (worker/src/system_checker.rs)                   *)

\* The first check comes at once, the others every CHECK_INTERVAL; in between
\* the loop looks at the watch channel.
Wake(w) ==
  /\ mode[w] = "up" /\ loop[w]["checker"] = "on"
  /\ check[w] = "sleep"
  /\ ~told[w]
  /\ check' = [check EXCEPT ![w] = "acquire"]
  /\ UNCHANGED <<rowVars, lock, mode, told, loop, envVars>>

LockIsFree == lock = Free

CheckAcquire(w) ==
  /\ check[w] = "acquire"
  /\ lock' = IF LockIsFree THEN w ELSE lock
  /\ check' = [check EXCEPT ![w] = IF LockIsFree THEN "count" ELSE "sleep"]
  /\ UNCHANGED <<rowVars, mode, told, loop, envVars>>

\* Mutants: only waiting rows are counted; rows of any status are.
Counted_Waiting == {r \in Rows : state[r] = Pending}
Counted_AnyStatus == {r \in Rows : state[r] # NotCreated}

\* count_active_by_type
Counted == Active

CheckCount(w) ==
  /\ check[w] = "count"
  /\ check' = [check EXCEPT ![w] = IF Counted = {} THEN "create" ELSE "release"]
  /\ UNCHANGED <<rowVars, lock, mode, told, loop, envVars>>

\* Rows a new one may be: a terminal row is never read again, so any of them may
\* be used again, and which one makes no difference.
Vacant == {r \in Rows : state[r] \notin {Pending, InProgress}}

\* schedule_standalone; whether the reply arrives makes no difference.
CheckCreate(w) ==
  /\ check[w] = "create"
  /\ Vacant # {}
  /\ LET new == CHOOSE r \in Vacant : TRUE IN
       /\ state' = [state EXCEPT ![new] = Pending]
       /\ used'  = [used EXCEPT ![new] = 0]
  /\ check' = [check EXCEPT ![w] = "release"]
  /\ UNCHANGED <<claim, stuck, lock, mode, told, loop, envVars>>

\* A failed acquire, count or create ends the check; the loop goes on.
CheckFails(w) ==
  /\ check[w] \in {"acquire", "count", "create"}
  /\ Fault
  /\ check' = [check EXCEPT ![w] = IF @ = "acquire" THEN "sleep" ELSE "release"]
  /\ UNCHANGED <<rowVars, lock, mode, told, loop>>

\* release deletes the key if the token is still this check's; a failed call is
\* ignored and leaves the key to its TTL.
CheckRelease(w) ==
  /\ check[w] = "release"
  /\ \/ /\ lock' = IF lock = w THEN Free ELSE lock
        /\ UNCHANGED envVars
     \/ /\ Fault
        /\ UNCHANGED lock
  /\ check' = [check EXCEPT ![w] = "sleep"]
  /\ UNCHANGED <<rowVars, mode, told, loop>>

\* A check that may still write.
Inside == {w \in Workers : check[w] \in {"count", "create"}}

\* LOCK_TTL_SECS
LockExpires ==
  /\ lock # Free
  /\ IF lock \in Inside
       THEN overruns < MaxOverruns /\ overruns' = overruns + 1
       ELSE UNCHANGED overruns
  /\ lock' = Free
  /\ UNCHANGED <<rowVars, mode, told, loop, check, faults, panics>>

----------------------------------------------------------------------------
(* The rows, by TaskPromise.  They share one ordering key: while one is       *)
(* IN_PROGRESS, a handler at work or not, find_pending gives out no other.    *)

KeyIsFree == stuck = {} /\ \A r \in Rows : state[r] # InProgress

\* Polled by whichever worker, popped by w.
RowStarts(r, w) ==
  /\ KeyIsFree
  /\ On("poller")
  /\ mode[w] = "up" /\ loop[w]["consumer"] = "on" /\ ~told[w]
  /\ Row!Start(r)
  /\ claim' = [claim EXCEPT ![r] = w]
  /\ UNCHANGED <<stuck, lock, mode, told, loop, check, envVars>>

\* Its id is lost on the way: a failed publish, a dropped pop, a failed fetch.
RowMislaid(r) ==
  /\ KeyIsFree
  /\ On("poller")
  /\ state[r] = Pending
  /\ Fault
  /\ stuck' = stuck \cup {r}
  /\ UNCHANGED <<state, used, claim, lock, mode, told, loop, check>>

\* The run ends, by itself or by its timeout.
RowEnds(r) ==
  /\ Row!Finish(r)
  /\ claim' = [claim EXCEPT ![r] = Nobody]
  /\ UNCHANGED <<stuck, lock, mode, told, loop, check, envVars>>

\* Runs that end with whoever had them; their rows stay IN_PROGRESS.
Lose(lost) ==
  /\ Row!Abandon(lost)
  /\ claim' = [r \in Rows |-> IF r \in lost THEN Nobody ELSE claim[r]]
  /\ stuck' = stuck \cup lost

ClaimsOf(w) == {r \in Rows : claim[r] = w}

\* The handler panics in its JoinSet task, or its batch_update fails.
RowLost(r) ==
  /\ state[r] = InProgress
  /\ Fault
  /\ Lose({r})
  /\ UNCHANGED <<lock, mode, told, loop, check>>

\* Mutant: only rows that have failed before are looked at.
Recoverable_RetriedOnly(r) == r \in stuck /\ used[r] > 0

Recoverable(r) == r \in stuck

\* reset_stale, an hour later, by any recovery loop that is left.
RowReset(r) ==
  /\ Recoverable(r)
  /\ On("recovery")
  /\ stuck' = stuck \ {r}
  /\ UNCHANGED <<state, used, claim, lock, mode, told, loop, check, envVars>>

----------------------------------------------------------------------------
(* The worker process (worker/src/main.rs)                                  *)

\* A loop's task panics; nothing looks at its JoinHandle before the shutdown.
\* The consumer's JoinSet goes with it and aborts its runs; a check's lock is
\* left to its TTL.
LoopPanics(w, l) ==
  /\ mode[w] = "up" /\ loop[w][l] = "on"
  /\ panics < MaxPanics /\ panics' = panics + 1
  /\ loop' = [loop EXCEPT ![w][l] = "panicked"]
  /\ IF l = "consumer" THEN Lose(ClaimsOf(w)) ELSE UNCHANGED rowVars
  /\ check' = IF l = "checker" THEN [check EXCEPT ![w] = "sleep"] ELSE check
  /\ UNCHANGED <<lock, mode, told, faults, overruns>>

\* wait_for_shutdown returns, shutdown_tx.send(true)
Terminate(w) ==
  /\ mode[w] = "up" /\ ~told[w]
  /\ Fault
  /\ told' = [told EXCEPT ![w] = TRUE]
  /\ UNCHANGED <<rowVars, lock, mode, loop, check>>

\* The consumer drains its runs first, the checker ends its check.
Idle(w, l) ==
  CASE l = "consumer" -> ClaimsOf(w) = {}
    [] l = "checker"  -> check[w] = "sleep"
    [] OTHER          -> TRUE

LoopEnds(w, l) ==
  /\ mode[w] = "up" /\ loop[w][l] = "on"
  /\ told[w]
  /\ Idle(w, l)
  /\ loop' = [loop EXCEPT ![w][l] = "ended"]
  /\ UNCHANGED <<rowVars, lock, mode, told, check, envVars>>

\* Mutant: main waits for every loop to say that it has stopped.
Joined_AllEnded(w) == \A l \in Loops : loop[w][l] = "ended"

\* tokio::join! of the four handles: a panicked task is joined like any other.
Joined(w) == \A l \in Loops : loop[w][l] # "on"

Exit(w) ==
  /\ mode[w] = "up" /\ told[w]
  /\ Joined(w)
  /\ mode' = [mode EXCEPT ![w] = "down"]
  /\ UNCHANGED <<rowVars, lock, told, loop, check, envVars>>

\* Mutant: the crash of a worker is taken for the end of its runs.
LostInCrash_Forgotten(w) == {}

LostInCrash(w) == ClaimsOf(w)

\* A crash, or the second signal's process::exit(130).
Crash(w) ==
  /\ mode[w] = "up"
  /\ Fault
  /\ Lose(LostInCrash(w))
  /\ mode'  = [mode EXCEPT ![w] = "down"]
  /\ check' = [check EXCEPT ![w] = "sleep"]
  /\ UNCHANGED <<lock, told, loop>>

Restart(w) ==
  /\ mode[w] = "down"
  /\ mode' = [mode EXCEPT ![w] = "up"]
  /\ told' = [told EXCEPT ![w] = FALSE]
  /\ loop' = [loop EXCEPT ![w] = AllOn]
  /\ UNCHANGED <<rowVars, lock, check, envVars>>

----------------------------------------------------------------------------

CheckerStep(w) ==
  \/ Wake(w)
  \/ CheckAcquire(w)
  \/ CheckCount(w)
  \/ CheckCreate(w)
  \/ CheckFails(w)
  \/ CheckRelease(w)

RowStep(r) ==
  \/ \E w \in Workers : RowStarts(r, w)
  \/ RowMislaid(r)
  \/ RowEnds(r)
  \/ RowLost(r)
  \/ RowReset(r)

ProcessStep(w) ==
  \/ \E l \in Loops : LoopPanics(w, l) \/ LoopEnds(w, l)
  \/ Terminate(w)
  \/ Exit(w)
  \/ Crash(w)
  \/ Restart(w)

Next ==
  \/ \E w \in Workers : CheckerStep(w) \/ ProcessStep(w)
  \/ \E r \in Rows : RowStep(r)
  \/ LockExpires

\* The loops that are left go on, runs end at the latest by their timeout, a
\* process that is down is started again.
Fairness ==
  /\ \A w \in Workers :
       /\ WF_vars(Wake(w)) /\ WF_vars(CheckAcquire(w)) /\ WF_vars(CheckCount(w))
       /\ WF_vars(CheckCreate(w)) /\ WF_vars(CheckRelease(w))
       /\ \A l \in Loops : WF_vars(LoopEnds(w, l))
       /\ WF_vars(Exit(w)) /\ WF_vars(Restart(w))
  /\ \A r \in Rows : WF_vars(RowEnds(r)) /\ WF_vars(RowReset(r))
  /\ WF_vars(\E r \in Rows, w \in Workers : RowStarts(r, w))
  /\ WF_vars(LockExpires)

Spec     == Init /\ [][Next]_vars
FairSpec == Spec /\ Fairness

----------------------------------------------------------------------------
(* Properties                                                              *)

\* In TaskPromise's sense a row is IN_PROGRESS when, and only when, a handler has it.
TypeOK ==
  /\ state \in [Rows -> TaskStatus \cup {NotCreated}]
  /\ used \in [Rows -> Nat]
  /\ claim \in [Rows -> Workers \cup {Nobody}]
  /\ \A r \in Rows : state[r] = InProgress <=> claim[r] # Nobody
  /\ stuck \subseteq Rows
  /\ lock \in Workers \cup {Free}
  /\ mode \in [Workers -> {"up", "down"}]
  /\ told \in [Workers -> BOOLEAN]
  /\ loop \in [Workers -> [Loops -> {"on", "ended", "panicked"}]]
  /\ check \in [Workers -> {"sleep", "acquire", "count", "create", "release"}]
  /\ faults \in Nat
  /\ panics \in Nat
  /\ overruns \in Nat

\* A row that runs has a consumer that is still there to end it; one without is
\* set aside for recovery.
ClaimsAreHeld ==
  /\ \A r \in Rows : claim[r] # Nobody =>
       mode[claim[r]] = "up" /\ loop[claim[r]]["consumer"] = "on"
  /\ \A r \in stuck : state[r] = Pending

\* "Schedules a new instance if no active row exists": counting and creating are
\* two statements, and each check that outlives the lock between them may add
\* one active row, nothing else does.
ActiveWithinOverruns == Cardinality(Active) <= 1 + overruns

\* A sweep that was dead-lettered, or never created, is there again: whatever
\* panics, crashes or fails, some checker is left to notice.
MissingIsRecreated == Active = {} ~> Active # {}

\* And it keeps being run: no loss, dead letter, dead loop or restart ends the
\* series, while each loop is alive in one worker.
SweepKeepsRunning == []<>(\E r \in Rows : state[r] = InProgress)

\* A worker told to stop stops, whichever of its loops has panicked before.
ShutdownCompletes == \A w \in Workers : told[w] ~> mode[w] = "down"

----------------------------------------------------------------------------
(* The inductive invariant behind ActiveWithinOverruns                      *)

Creating == {w \in Workers : check[w] = "create"}

CheckInv ==
  /\ Cardinality(Active) + Cardinality(Creating) <= 1 + overruns
  /\ Cardinality(Inside \ {lock}) <= overruns
=============================================================================
