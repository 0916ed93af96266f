------------------------- MODULE SystemTasks_proofs -------------------------
(***************************************************************************)
(* Theorems about SystemTasks, for every set of workers and rows and every   *)
(* budget of faults, panics and overruns.                                    *)
(***************************************************************************)
EXTENDS SystemTasks, TLAPS, FiniteSetTheorems

----------------------------------------------------------------------------
(* The steps of TaskPromise, as seen from here                              *)

LEMMA Statuses ==
  /\ Row!Pending = Pending /\ Row!InProgress = InProgress
  /\ Row!Completed = Completed /\ Row!DeadLetter = DeadLetter
  /\ NotCreated = "NOT_CREATED"
  BY DEF Row!Pending, Row!InProgress, Row!Completed, Row!DeadLetter, Pending, InProgress,
         Completed, DeadLetter, NotCreated, Row!NotCreated

LEMMA StartStep ==
  ASSUME NEW r \in Rows, Row!Start(r)
  PROVE  /\ state[r] = Pending
         /\ state' = [state EXCEPT ![r] = InProgress]
         /\ used' = used
  BY Statuses DEF Row!Start

LEMMA AbandonStep ==
  ASSUME NEW lost, Row!Abandon(lost)
  PROVE  /\ \A r \in lost : state[r] = InProgress
         /\ state' = [r \in Rows |-> IF r \in lost THEN Pending ELSE state[r]]
         /\ used' = used
  BY Statuses DEF Row!Abandon

\* compute_update: never IN_PROGRESS again, and a natural number of attempts.
LEMMA UpdateType ==
  ASSUME NEW a \in Nat, NEW m \in Nat, NEW result \in TaskResult
  PROVE  LET u == Row!ComputeUpdate(a, m, 1, 0, result) IN
         u.status \in {Pending, Completed, DeadLetter} /\ u.attempt \in Nat
  BY Statuses
  DEF Row!ComputeUpdate, Row!OnSuccess, Row!OnRetryableFailure, Row!OnPermanentFailure,
      Row!OnSkip, Row!OnTerminate, Row!CanRetry, Row!Update, Row!NoRetries,
      Row!NoInterval, Row!KeepNextRun, TaskResult

LEMMA FinishStep ==
  ASSUME TypeOK, NEW r \in Rows, Row!Finish(r)
  PROVE  /\ state[r] = InProgress
         /\ \E st \in {Pending, Completed, DeadLetter}, n \in Nat :
              /\ state' = [state EXCEPT ![r] = st]
              /\ used' = [used EXCEPT ![r] = n]
<1>1. state[r] = InProgress /\ used[r] \in Nat /\ Retries \in Nat
  BY Statuses, SystemTasksAssumption DEF Row!Finish, TypeOK
<1>2. PICK result \in Answers \cup {"RetryableFailure"} :
        LET u == Row!ComputeUpdate(used[r], Retries, 1, 0, result) IN
        /\ state' = [state EXCEPT ![r] = u.status]
        /\ used' = [used EXCEPT ![r] = u.attempt]
  BY DEF Row!Finish, Row!RunResults
<1>3. result \in TaskResult
  BY SystemTasksAssumption DEF TaskResult
<1>4. QED
  BY <1>1, <1>2, <1>3, UpdateType

\* Runs that are lost: what Lose does to the rows keeps their types.
LEMMA LoseType ==
  ASSUME TypeOK, NEW lost \in SUBSET Rows, Lose(lost)
  PROVE  /\ state' \in [Rows -> TaskStatus \cup {NotCreated}]
         /\ used' \in [Rows -> Nat]
         /\ claim' \in [Rows -> Workers \cup {Nobody}]
         /\ \A r \in Rows : state'[r] = InProgress <=> claim'[r] # Nobody
         /\ stuck' \subseteq Rows
<1>1. /\ \A r \in lost : state[r] = InProgress
      /\ state' = [r \in Rows |-> IF r \in lost THEN Pending ELSE state[r]]
      /\ used' = used
      /\ claim' = [r \in Rows |-> IF r \in lost THEN Nobody ELSE claim[r]]
      /\ stuck' = stuck \cup lost
  BY AbandonStep DEF Lose
<1>2. QED
  BY <1>1 DEF TypeOK, TaskStatus, Pending, InProgress

----------------------------------------------------------------------------
(* Type correctness                                                         *)

LEMMA InitType == Init => TypeOK
  BY Statuses
  DEF Init, TypeOK, Row!Init, AllOn, Loops, InProgress, NotCreated

LEMMA CheckerStepType ==
  ASSUME TypeOK, NEW w \in Workers, CheckerStep(w)
  PROVE  TypeOK'
<1> USE DEF TypeOK, rowVars, envVars
<1>1. CASE Wake(w) \/ CheckAcquire(w) \/ CheckCount(w)
  BY <1>1 DEF Wake, CheckAcquire, CheckCount
<1>2. CASE CheckCreate(w)
  <2>1. PICK new \in Rows :
          /\ state[new] \notin {Pending, InProgress}
          /\ state' = [state EXCEPT ![new] = Pending]
          /\ used' = [used EXCEPT ![new] = 0]
    <3>1. Vacant # {} /\ Vacant \subseteq Rows
      BY <1>2 DEF CheckCreate, Vacant
    <3>2. (CHOOSE r \in Vacant : TRUE) \in Vacant
      BY <3>1
    <3>3. QED
      BY <1>2, <3>1, <3>2 DEF CheckCreate, Vacant
  <2>2. /\ state' \in [Rows -> TaskStatus \cup {NotCreated}] /\ used' \in [Rows -> Nat]
        /\ \A r \in Rows : state'[r] = InProgress <=> claim[r] # Nobody
    BY <2>1 DEF TaskStatus, Pending, InProgress
  <2>3. check' \in [Workers -> {"sleep", "acquire", "count", "create", "release"}]
    BY <1>2 DEF CheckCreate
  <2>4. UNCHANGED <<claim, stuck, lock, mode, told, loop, envVars>>
    BY <1>2 DEF CheckCreate
  <2>5. QED
    BY <2>2, <2>3, <2>4
<1>3. CASE CheckFails(w)
  BY <1>3 DEF CheckFails, Fault
<1>4. CASE CheckRelease(w)
  BY <1>4 DEF CheckRelease, Fault
<1>5. QED
  BY <1>1, <1>2, <1>3, <1>4, CheckerStep(w) DEF CheckerStep

LEMMA RowStepType ==
  ASSUME TypeOK, NEW r \in Rows, RowStep(r)
  PROVE  TypeOK'
<1> USE DEF rowVars, envVars
<1>1. CASE \E w \in Workers : RowStarts(r, w)
  <2>1. PICK w \in Workers : RowStarts(r, w)
    BY <1>1
  <2>2. /\ state' = [state EXCEPT ![r] = InProgress] /\ used' = used
        /\ claim' = [claim EXCEPT ![r] = w]
        /\ UNCHANGED <<stuck, lock, mode, told, loop, check, envVars>>
    BY <2>1, StartStep DEF RowStarts
  <2>3. QED
    BY <2>2, SystemTasksAssumption DEF TypeOK, TaskStatus
<1>2. CASE RowMislaid(r)
  BY <1>2 DEF RowMislaid, Fault, TypeOK
<1>3. CASE RowEnds(r)
  <2>1. PICK st \in {Pending, Completed, DeadLetter}, n \in Nat :
          /\ state' = [state EXCEPT ![r] = st] /\ used' = [used EXCEPT ![r] = n]
    BY <1>3, FinishStep DEF RowEnds
  <2>2. /\ claim' = [claim EXCEPT ![r] = Nobody]
        /\ UNCHANGED <<stuck, lock, mode, told, loop, check, envVars>>
    BY <1>3 DEF RowEnds
  <2>3. QED
    BY <2>1, <2>2 DEF TypeOK, TaskStatus, Pending, InProgress, Completed, DeadLetter
<1>4. CASE RowLost(r)
  <2>1. Lose({r}) /\ UNCHANGED <<lock, mode, told, loop, check>> /\ Fault
    BY <1>4 DEF RowLost
  <2>2. QED
    BY <2>1, LoseType DEF TypeOK, Fault
<1>5. CASE RowReset(r)
  BY <1>5 DEF RowReset, TypeOK
<1>6. QED
  BY <1>1, <1>2, <1>3, <1>4, <1>5, RowStep(r) DEF RowStep

LEMMA ProcessStepType ==
  ASSUME TypeOK, NEW w \in Workers, ProcessStep(w)
  PROVE  TypeOK'
<1> USE DEF rowVars, envVars
<1>0. ClaimsOf(w) \in SUBSET Rows
  BY DEF ClaimsOf
<1>1. CASE \E l \in Loops : LoopPanics(w, l)
  <2>1. PICK l \in Loops : LoopPanics(w, l)
    BY <1>1
  <2>2. /\ loop' \in [Workers -> [Loops -> {"on", "ended", "panicked"}]]
        /\ check' \in [Workers -> {"sleep", "acquire", "count", "create", "release"}]
        /\ panics' \in Nat
        /\ UNCHANGED <<lock, mode, told, faults, overruns>>
    BY <2>1 DEF LoopPanics, TypeOK
  <2>3. CASE l = "consumer"
    BY <1>0, <2>1, <2>2, <2>3, LoseType DEF LoopPanics, TypeOK
  <2>4. CASE l # "consumer"
    BY <2>1, <2>2, <2>4 DEF LoopPanics, TypeOK
  <2>5. QED
    BY <2>3, <2>4
<1>2. CASE \E l \in Loops : LoopEnds(w, l)
  BY <1>2 DEF LoopEnds, TypeOK
<1>3. CASE Terminate(w)
  BY <1>3 DEF Terminate, Fault, TypeOK
<1>4. CASE Exit(w)
  BY <1>4 DEF Exit, TypeOK
<1>5. CASE Crash(w)
  <2>1. /\ Lose(ClaimsOf(w)) /\ Fault
        /\ mode' = [mode EXCEPT ![w] = "down"]
        /\ check' = [check EXCEPT ![w] = "sleep"]
        /\ UNCHANGED <<lock, told, loop>>
    BY <1>5 DEF Crash, LostInCrash
  <2>2. QED
    BY <1>0, <2>1, LoseType DEF TypeOK, Fault
<1>6. CASE Restart(w)
  BY <1>6 DEF Restart, TypeOK, AllOn
<1>7. QED
  BY <1>1, <1>2, <1>3, <1>4, <1>5, <1>6, ProcessStep(w) DEF ProcessStep

\* Every reachable state is well typed, and a row is IN_PROGRESS exactly while
\* some worker's handler has it, whatever panics, crashes or is told to stop.
THEOREM TypeCorrect == Spec => []TypeOK
<1>1. TypeOK /\ [Next]_vars => TypeOK'
  <2> SUFFICES ASSUME TypeOK, [Next]_vars PROVE TypeOK'
    OBVIOUS
  <2>1. CASE \E w \in Workers : CheckerStep(w) \/ ProcessStep(w)
    BY <2>1, CheckerStepType, ProcessStepType
  <2>2. CASE \E r \in Rows : RowStep(r)
    BY <2>2, RowStepType
  <2>3. CASE LockExpires
    BY <2>3 DEF LockExpires, TypeOK, rowVars
  <2>4. CASE UNCHANGED vars
    BY <2>4 DEF vars, TypeOK
  <2>5. QED
    BY <2>1, <2>2, <2>3, <2>4 DEF Next
<1>2. QED
  BY InitType, <1>1, PTL DEF Spec

----------------------------------------------------------------------------
(* One active row, but for overruns                                         *)

LEMMA Finite ==
  /\ IsFiniteSet(Active) /\ IsFiniteSet(Creating) /\ IsFiniteSet(Inside)
  /\ Cardinality(Active) \in Nat /\ Cardinality(Creating) \in Nat
  /\ Cardinality(Inside) \in Nat
<1>1. Active \subseteq Rows /\ Creating \subseteq Workers /\ Inside \subseteq Workers
  BY DEF Active, Creating, Inside
<1>2. QED
  BY <1>1, FS_Subset, FS_CardinalityType, SystemTasksAssumption

\* Rows that settle, checks that move on and releases disturb nothing.
LEMMA CheckQuiet ==
  ASSUME TypeOK, CheckInv, Active' \subseteq Active, Creating' \subseteq Creating,
         Inside' \ {lock'} \subseteq Inside \ {lock}, overruns' = overruns
  PROVE  CheckInv'
<1>1. IsFiniteSet(Inside \ {lock})
  BY Finite, FS_Subset
<1>2. /\ Cardinality(Active') <= Cardinality(Active)
      /\ Cardinality(Creating') <= Cardinality(Creating)
      /\ Cardinality(Inside' \ {lock'}) <= Cardinality(Inside \ {lock})
      /\ Cardinality(Active') \in Nat /\ Cardinality(Creating') \in Nat
      /\ Cardinality(Inside' \ {lock'}) \in Nat
  BY <1>1, Finite, FS_Subset, FS_CardinalityType
<1>3. Cardinality(Inside \ {lock}) \in Nat /\ overruns \in Nat
  BY <1>1, FS_CardinalityType DEF TypeOK
<1>4. QED
  BY <1>2, <1>3, Finite DEF CheckInv

\* A check that has just counted no active row: all that may still create are
\* the lock's holder and those whose lock has expired.
LEMMA CountKeeps ==
  ASSUME TypeOK, CheckInv, NEW w \in Workers, CheckCount(w)
  PROVE  CheckInv'
<1> USE DEF rowVars, envVars
<1>1. /\ check[w] = "count" /\ UNCHANGED <<state, lock, overruns>>
      /\ check' = [check EXCEPT ![w] = IF Counted = {} THEN "create" ELSE "release"]
  BY DEF CheckCount
<1>2. Active' = Active
  BY <1>1 DEF Active
<1>3. CASE Counted # {}
  BY <1>1, <1>2, <1>3, CheckQuiet DEF TypeOK, Creating, Inside
<1>4. CASE Counted = {}
  <2>1. Active = {} /\ Cardinality(Active') = 0
    BY <1>2, <1>4, FS_EmptySet DEF Counted
  <2>2. Inside' = Inside /\ Creating' \subseteq Inside
    BY <1>1, <1>4 DEF TypeOK, Inside, Creating
  <2>3. Inside \subseteq (Inside \ {lock}) \cup {lock}
    OBVIOUS
  <2>4. /\ IsFiniteSet(Inside \ {lock})
        /\ Cardinality(Inside \ {lock}) \in Nat
    BY Finite, FS_Subset, FS_CardinalityType
  <2>5. /\ IsFiniteSet((Inside \ {lock}) \cup {lock})
        /\ Cardinality((Inside \ {lock}) \cup {lock}) = Cardinality(Inside \ {lock}) + 1
    BY <2>4, FS_AddElement
  <2>6. /\ Cardinality(Creating') <= Cardinality(Inside \ {lock}) + 1
        /\ Cardinality(Creating') \in Nat
    <3>1. Creating' \subseteq (Inside \ {lock}) \cup {lock}
      BY <2>2, <2>3
    <3>2. QED
      BY <2>5, <3>1, FS_Subset, FS_CardinalityType
  <2>7. overruns \in Nat /\ Cardinality(Inside \ {lock}) <= overruns
    BY DEF TypeOK, CheckInv
  <2>8. QED
    BY <1>1, <2>1, <2>2, <2>4, <2>6, <2>7 DEF CheckInv
<1>5. QED
  BY <1>3, <1>4

\* Creating a row turns one check that may create into one active row.
LEMMA CreateKeeps ==
  ASSUME TypeOK, CheckInv, NEW w \in Workers, CheckCreate(w)
  PROVE  CheckInv'
<1> USE DEF rowVars, envVars
<1>1. /\ check[w] = "create" /\ UNCHANGED <<lock, overruns>>
      /\ check' = [check EXCEPT ![w] = "release"]
      /\ \E new \in Rows : state' = [state EXCEPT ![new] = Pending]
  <2>1. (CHOOSE r \in Vacant : TRUE) \in Rows
    BY DEF CheckCreate, Vacant
  <2>2. QED
    BY <2>1 DEF CheckCreate
<1>2. PICK new \in Rows : state' = [state EXCEPT ![new] = Pending]
  BY <1>1
<1>3. Active' \subseteq Active \cup {new}
  BY <1>2 DEF Active, TypeOK
<1>4. Creating' = Creating \ {w} /\ w \in Creating /\ Inside' \subseteq Inside
  BY <1>1 DEF Creating, Inside, TypeOK
<1>5. Cardinality(Active') <= Cardinality(Active) + 1 /\ Cardinality(Active') \in Nat
  <2>0. /\ IsFiniteSet(Active \cup {new})
        /\ Cardinality(Active \cup {new}) =
             IF new \in Active THEN Cardinality(Active) ELSE Cardinality(Active) + 1
    BY Finite, FS_AddElement
  <2>1. /\ IsFiniteSet(Active \cup {new})
        /\ Cardinality(Active \cup {new}) <= Cardinality(Active) + 1
        /\ Cardinality(Active \cup {new}) \in Nat
    BY <2>0, Finite
  <2>2. QED
    BY <1>3, <2>1, Finite, FS_Subset, FS_CardinalityType
<1>6. Cardinality(Creating') = Cardinality(Creating) - 1
  BY <1>4, Finite, FS_RemoveElement
<1>7. Cardinality(Inside' \ {lock'}) <= Cardinality(Inside \ {lock})
  BY <1>1, <1>4, Finite, FS_Subset
<1>8. /\ IsFiniteSet(Inside \ {lock}) /\ Cardinality(Inside \ {lock}) \in Nat
      /\ Cardinality(Inside' \ {lock'}) \in Nat
  BY <1>1, <1>4, Finite, FS_Subset, FS_CardinalityType
<1>9. QED
  BY <1>1, <1>5, <1>6, <1>7, <1>8, Finite DEF CheckInv, TypeOK

\* A lock that expires under a check inside it is one overrun more.
LEMMA ExpiryKeeps ==
  ASSUME TypeOK, CheckInv, LockExpires
  PROVE  CheckInv'
<1> USE DEF rowVars, envVars
<1>1. /\ lock' = Free /\ Active' = Active /\ Creating' = Creating /\ Inside' = Inside
      /\ Inside \subseteq Workers
  BY DEF LockExpires, Active, Creating, Inside
<1>2. Inside' \ {lock'} = Inside
  BY <1>1, SystemTasksAssumption
<1>3. CASE lock \notin Inside
  BY <1>1, <1>2, <1>3, CheckQuiet DEF LockExpires
<1>4. CASE lock \in Inside
  <2>1. overruns' = overruns + 1 /\ overruns \in Nat
    BY <1>4 DEF LockExpires, TypeOK
  <2>2. Cardinality(Inside \ {lock}) = Cardinality(Inside) - 1
    BY <1>4, Finite, FS_RemoveElement
  <2>3. Cardinality(Active) + Cardinality(Creating) <= 1 + overruns
    BY DEF CheckInv
  <2>4. Cardinality(Inside) - 1 <= overruns
    BY <2>2 DEF CheckInv
  <2>5. Cardinality(Active') + Cardinality(Creating') <= 1 + overruns'
    BY <1>1, <2>1, <2>3, Finite
  <2>6. Cardinality(Inside' \ {lock'}) <= overruns'
    <3>1. Cardinality(Inside' \ {lock'}) = Cardinality(Inside)
      BY <1>2, Zenon
    <3>2. QED
      BY <2>1, <2>4, <3>1, Finite
  <2>7. QED
    BY <2>5, <2>6 DEF CheckInv
<1>5. QED
  BY <1>3, <1>4

\* The steps of rows make none active that was not.
LEMMA RowStepActive ==
  ASSUME TypeOK, NEW r \in Rows, RowStep(r)
  PROVE  Active' \subseteq Active /\ UNCHANGED <<lock, check, overruns>>
<1> USE DEF rowVars, envVars
<1>1. CASE \E w \in Workers : RowStarts(r, w)
  BY <1>1, StartStep DEF RowStarts, Active, TypeOK
<1>2. CASE RowMislaid(r) \/ RowReset(r)
  BY <1>2 DEF RowMislaid, RowReset, Fault, Active
<1>3. CASE RowEnds(r)
  BY <1>3, FinishStep DEF RowEnds, Active, TypeOK
<1>4. CASE RowLost(r)
  BY <1>4, AbandonStep DEF RowLost, Lose, Fault, Active
<1>5. QED
  BY <1>1, <1>2, <1>3, <1>4, RowStep(r) DEF RowStep

LEMMA ProcessStepQuiet ==
  ASSUME TypeOK, NEW w \in Workers, ProcessStep(w)
  PROVE  /\ Active' \subseteq Active
         /\ \A v \in Workers : check'[v] = check[v] \/ check'[v] = "sleep"
         /\ UNCHANGED <<lock, overruns>>
<1> USE DEF rowVars, envVars
<1>1. CASE \E l \in Loops : LoopPanics(w, l)
  <2>1. PICK l \in Loops : LoopPanics(w, l)
    BY <1>1
  <2>2. Active' \subseteq Active
    BY <2>1, AbandonStep DEF LoopPanics, Lose, Active
  <2>3. QED
    BY <2>1, <2>2 DEF LoopPanics, TypeOK
<1>2. CASE Crash(w)
  <2>1. Active' \subseteq Active
    BY <1>2, AbandonStep DEF Crash, Lose, Active
  <2>2. QED
    BY <1>2, <2>1 DEF Crash, Fault, TypeOK
<1>3. CASE (\E l \in Loops : LoopEnds(w, l)) \/ Terminate(w) \/ Exit(w) \/ Restart(w)
  BY <1>3 DEF LoopEnds, Terminate, Exit, Restart, Fault, Active
<1>4. QED
  BY <1>1, <1>2, <1>3, ProcessStep(w) DEF ProcessStep

LEMMA NextCheckInv ==
  ASSUME TypeOK, CheckInv, [Next]_vars
  PROVE  CheckInv'
<1> USE DEF rowVars, envVars
<1>1. CASE \E w \in Workers : CheckerStep(w)
  <2>1. PICK w \in Workers : CheckerStep(w)
    BY <1>1
  <2>2. CASE CheckCount(w) \/ CheckCreate(w)
    BY <2>2, CountKeeps, CreateKeeps
  <2>3. CASE Wake(w)
    BY <2>3, CheckQuiet DEF Wake, Active, Creating, Inside, TypeOK
  <2>4. CASE CheckAcquire(w)
    <3>1. Active' = Active /\ Creating' \subseteq Creating /\ overruns' = overruns
      BY <2>4 DEF CheckAcquire, Active, Creating, TypeOK
    <3>2. Inside' \ {lock'} \subseteq Inside \ {lock}
      BY <2>4, SystemTasksAssumption DEF CheckAcquire, LockIsFree, Inside, TypeOK
    <3>3. QED
      BY <3>1, <3>2, CheckQuiet
  <2>5. CASE CheckFails(w)
    BY <2>5, CheckQuiet DEF CheckFails, Fault, Active, Creating, Inside, TypeOK
  <2>6. CASE CheckRelease(w)
    <3>1. Active' = Active /\ Creating' \subseteq Creating /\ overruns' = overruns
      BY <2>6 DEF CheckRelease, Fault, Active, Creating, TypeOK
    <3>2. Inside' \ {lock'} \subseteq Inside \ {lock}
      BY <2>6 DEF CheckRelease, Inside, TypeOK
    <3>3. QED
      BY <3>1, <3>2, CheckQuiet
  <2>7. QED
    BY <2>1, <2>2, <2>3, <2>4, <2>5, <2>6 DEF CheckerStep
<1>2. CASE \E w \in Workers : ProcessStep(w)
  BY <1>2, ProcessStepQuiet, CheckQuiet DEF Creating, Inside
<1>3. CASE \E r \in Rows : RowStep(r)
  BY <1>3, RowStepActive, CheckQuiet DEF Creating, Inside
<1>4. CASE LockExpires
  BY <1>4, ExpiryKeeps
<1>5. CASE UNCHANGED vars
  BY <1>5, CheckQuiet DEF vars, Active, Creating, Inside
<1>6. QED
  BY <1>1, <1>2, <1>3, <1>4, <1>5 DEF Next

\* The checks that may still create a row, and the rows that are active, are
\* never more than the overruns and one.
THEOREM ChecksAreCounted == Spec => []CheckInv
<1>1. Init => CheckInv
  <2> SUFFICES ASSUME Init PROVE CheckInv
    OBVIOUS
  <2>1. Active = {}
    BY DEF Init, Row!Init, Row!NotCreated, Active, Pending, InProgress
  <2>2. Creating = {} /\ Inside = {} /\ Inside \ {lock} = {} /\ overruns = 0
    BY DEF Init, Creating, Inside
  <2>3. QED
    BY <2>1, <2>2, FS_EmptySet DEF CheckInv
<1>2. QED
  BY <1>1, NextCheckInv, TypeCorrect, PTL DEF Spec

\* With any number of workers, crashes, panics, restarts and lost replies, the
\* sweep has at most one active row more than checks have outlived their lock;
\* with none of those it is a single instance.
THEOREM SweepIsSingle == Spec => []ActiveWithinOverruns
<1>1. TypeOK /\ CheckInv => ActiveWithinOverruns
  BY Finite DEF TypeOK, CheckInv, ActiveWithinOverruns
<1>2. QED
  BY <1>1, TypeCorrect, ChecksAreCounted, PTL

----------------------------------------------------------------------------
(* Rows that run have a consumer to end them                                *)

\* Steps that take nothing away: no new claim, nothing new to recover.
LEMMA ClaimsQuiet ==
  ASSUME ClaimsAreHeld, UNCHANGED <<claim, mode, loop>>, stuck' \subseteq stuck,
         \A r \in stuck' : state'[r] = Pending
  PROVE  ClaimsAreHeld'
  BY DEF ClaimsAreHeld

\* Lost runs give up their claims, and their rows wait for recovery as PENDING.
LEMMA LoseHeld ==
  ASSUME TypeOK, ClaimsAreHeld, NEW lost \in SUBSET Rows, Lose(lost)
  PROVE  /\ \A r \in Rows : claim'[r] # Nobody => claim'[r] = claim[r] /\ r \notin lost
         /\ \A r \in stuck' : state'[r] = Pending
<1>1. /\ state' = [r \in Rows |-> IF r \in lost THEN Pending ELSE state[r]]
      /\ claim' = [r \in Rows |-> IF r \in lost THEN Nobody ELSE claim[r]]
      /\ stuck' = stuck \cup lost
  BY AbandonStep DEF Lose
<1>2. QED
  BY <1>1 DEF TypeOK, ClaimsAreHeld

LEMMA CheckerStepHeld ==
  ASSUME TypeOK, ClaimsAreHeld, NEW w \in Workers, CheckerStep(w)
  PROVE  ClaimsAreHeld'
<1> USE DEF rowVars, envVars
<1>1. CASE CheckCreate(w)
  <2>1. PICK new : state' = [state EXCEPT ![new] = Pending]
    BY <1>1 DEF CheckCreate
  <2>2. \A r \in stuck' : state'[r] = Pending
    BY <1>1, <2>1 DEF CheckCreate, ClaimsAreHeld, TypeOK
  <2>3. QED
    BY <1>1, <2>2, ClaimsQuiet DEF CheckCreate
<1>2. CASE Wake(w) \/ CheckAcquire(w) \/ CheckCount(w)
  BY <1>2 DEF Wake, CheckAcquire, CheckCount, ClaimsAreHeld
<1>3. CASE CheckFails(w) \/ CheckRelease(w)
  BY <1>3 DEF CheckFails, CheckRelease, ClaimsAreHeld
<1>4. QED
  BY <1>1, <1>2, <1>3, CheckerStep(w) DEF CheckerStep

LEMMA RowStepHeld ==
  ASSUME TypeOK, ClaimsAreHeld, NEW r \in Rows, RowStep(r)
  PROVE  ClaimsAreHeld'
<1> USE DEF rowVars, envVars
<1>1. CASE \E w \in Workers : RowStarts(r, w)
  <2>1. PICK w \in Workers : RowStarts(r, w)
    BY <1>1
  <2>2. /\ mode[w] = "up" /\ loop[w]["consumer"] = "on" /\ stuck' = {}
        /\ claim' = [claim EXCEPT ![r] = w]
        /\ UNCHANGED <<mode, loop>>
    BY <2>1 DEF RowStarts, KeyIsFree
  <2>3. QED
    BY <2>2 DEF ClaimsAreHeld, TypeOK
<1>2. CASE RowMislaid(r)
  BY <1>2 DEF RowMislaid, ClaimsAreHeld
<1>3. CASE RowEnds(r)
  <2>1. /\ state[r] = InProgress
        /\ \E st : state' = [state EXCEPT ![r] = st]
        /\ claim' = [claim EXCEPT ![r] = Nobody]
        /\ UNCHANGED <<stuck, mode, loop>>
    BY <1>3, FinishStep DEF RowEnds
  <2>2. r \notin stuck
    BY <2>1 DEF ClaimsAreHeld, Pending, InProgress
  <2>3. QED
    BY <2>1, <2>2 DEF ClaimsAreHeld, TypeOK
<1>4. CASE RowLost(r)
  <2>1. Lose({r}) /\ UNCHANGED <<mode, loop>>
    BY <1>4 DEF RowLost
  <2>2. QED
    BY <2>1, LoseHeld DEF ClaimsAreHeld
<1>5. CASE RowReset(r)
  BY <1>5, ClaimsQuiet DEF RowReset, ClaimsAreHeld
<1>6. QED
  BY <1>1, <1>2, <1>3, <1>4, <1>5, RowStep(r) DEF RowStep

\* A process, or its consumer, ends only with no run left, or takes them along.
LEMMA ProcessStepHeld ==
  ASSUME TypeOK, ClaimsAreHeld, NEW w \in Workers, ProcessStep(w)
  PROVE  ClaimsAreHeld'
<1> USE DEF rowVars, envVars
<1>0. /\ ClaimsOf(w) \in SUBSET Rows
      /\ \A r \in Rows : claim[r] = w <=> r \in ClaimsOf(w)
      /\ "consumer" \in Loops
  BY DEF ClaimsOf, Loops
<1>1. CASE \E l \in Loops : LoopPanics(w, l)
  <2>1. PICK l \in Loops : LoopPanics(w, l)
    BY <1>1
  <2>2. mode' = mode /\ loop' = [loop EXCEPT ![w][l] = "panicked"]
    BY <2>1 DEF LoopPanics
  <2>3. CASE l = "consumer"
    <3>1. Lose(ClaimsOf(w))
      BY <2>1, <2>3 DEF LoopPanics
    <3>2. /\ \A r \in Rows : claim'[r] # Nobody => claim'[r] = claim[r] /\ r \notin ClaimsOf(w)
          /\ \A r \in stuck' : state'[r] = Pending
      BY <1>0, <3>1, LoseHeld
    <3>3. QED
      BY <1>0, <2>2, <3>2 DEF ClaimsAreHeld, TypeOK
  <2>4. CASE l # "consumer"
    BY <1>0, <2>1, <2>2, <2>4 DEF LoopPanics, ClaimsAreHeld, TypeOK
  <2>5. QED
    BY <2>3, <2>4
<1>2. CASE \E l \in Loops : LoopEnds(w, l)
  <2>1. PICK l \in Loops : LoopEnds(w, l)
    BY <1>2
  <2>2. /\ loop' = [loop EXCEPT ![w][l] = "ended"]
        /\ l = "consumer" => ClaimsOf(w) = {}
        /\ UNCHANGED <<state, stuck, claim, mode>>
    BY <2>1 DEF LoopEnds, Idle
  <2>3. QED
    BY <1>0, <2>2 DEF ClaimsAreHeld, TypeOK
<1>3. CASE Terminate(w)
  BY <1>3 DEF Terminate, ClaimsAreHeld
<1>4. CASE Exit(w)
  <2>1. /\ loop[w]["consumer"] # "on" /\ mode' = [mode EXCEPT ![w] = "down"]
        /\ UNCHANGED <<state, stuck, claim, loop>>
    BY <1>0, <1>4 DEF Exit, Joined
  <2>2. QED
    BY <2>1 DEF ClaimsAreHeld, TypeOK
<1>5. CASE Crash(w)
  <2>1. Lose(ClaimsOf(w)) /\ mode' = [mode EXCEPT ![w] = "down"] /\ loop' = loop
    BY <1>5 DEF Crash, LostInCrash
  <2>2. /\ \A r \in Rows : claim'[r] # Nobody => claim'[r] = claim[r] /\ r \notin ClaimsOf(w)
        /\ \A r \in stuck' : state'[r] = Pending
    BY <1>0, <2>1, LoseHeld
  <2>3. QED
    BY <1>0, <2>1, <2>2 DEF ClaimsAreHeld, TypeOK
<1>6. CASE Restart(w)
  <2>1. /\ mode[w] = "down"
        /\ mode' = [mode EXCEPT ![w] = "up"] /\ loop' = [loop EXCEPT ![w] = AllOn]
        /\ UNCHANGED <<state, stuck, claim>>
    BY <1>6 DEF Restart
  <2>2. \A r \in Rows : claim[r] # w
    BY <2>1, SystemTasksAssumption DEF ClaimsAreHeld
  <2>3. QED
    BY <2>1, <2>2 DEF ClaimsAreHeld, TypeOK
<1>7. QED
  BY <1>1, <1>2, <1>3, <1>4, <1>5, <1>6, ProcessStep(w) DEF ProcessStep

\* A row that runs belongs to a worker that is up and whose consumer lives, and
\* a row without a run is PENDING for recovery to find: neither a panic, a
\* crash, a shutdown nor a restart leaves a claim behind.
THEOREM RunsHaveConsumers == Spec => []ClaimsAreHeld
<1>1. Init => ClaimsAreHeld
  BY DEF Init, ClaimsAreHeld
<1>2. TypeOK /\ ClaimsAreHeld /\ [Next]_vars => ClaimsAreHeld'
  <2> SUFFICES ASSUME TypeOK, ClaimsAreHeld, [Next]_vars PROVE ClaimsAreHeld'
    OBVIOUS
  <2>1. CASE \E w \in Workers : CheckerStep(w) \/ ProcessStep(w)
    BY <2>1, CheckerStepHeld, ProcessStepHeld
  <2>2. CASE \E r \in Rows : RowStep(r)
    BY <2>2, RowStepHeld
  <2>3. CASE LockExpires
    BY <2>3 DEF LockExpires, rowVars, ClaimsAreHeld
  <2>4. CASE UNCHANGED vars
    BY <2>4 DEF vars, ClaimsAreHeld
  <2>5. QED
    BY <2>1, <2>2, <2>3, <2>4 DEF Next
<1>3. QED
  BY <1>1, <1>2, TypeCorrect, PTL DEF Spec
=============================================================================
