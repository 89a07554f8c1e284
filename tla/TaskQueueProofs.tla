--------------------------- MODULE TaskQueueProofs ---------------------------
(* Safety of the job queue for every number of processes and tasks.        *)
EXTENDS TaskQueue, TLAPS

\* What ties a worker to its row and to its process.
Holding ==
    \A p \in Procs :
        /\ phase[p] \in {"claim", "run", "ok", "err"} => job[p] \in Tasks
        /\ phase[p] = "claim" => status[job[p]] = "pending"
        /\ server[p] = "down" => phase[p] = "stopped"

\* A row that can still be attempted has attempts left.
AttemptsLeft ==
    \A t \in Tasks :
        /\ status[t] = "dead" => attempts[t] = MaxAttempts
        /\ status[t] # "dead" => attempts[t] < MaxAttempts

\* Effects never outnumber attempts; a handler that has just been entered has
\* not acted yet.
EffectsPaidFor ==
    /\ \A t \in Tasks :
          /\ sends[t] <= attempts[t] + 1
          /\ status[t] \notin {"processing", "completed"} => sends[t] <= attempts[t]
    /\ \A p \in Procs : phase[p] = "run" => sends[job[p]] <= attempts[job[p]]

QueueInv == /\ TypeOK
            /\ ExclusiveClaim
            /\ Holding
            /\ AttemptsLeft
            /\ EffectsPaidFor

-----------------------------------------------------------------------------
LEMMA InitInv == Init => QueueInv
  BY QueueAssumption
     DEF Init, QueueInv, TypeOK, ExclusiveClaim, Holding, AttemptsLeft, EffectsPaidFor,
         Holds, Executing, Statuses, Phases, Stages

\* One action of the queue at a time preserves the invariant.
LEMMA NextInv == QueueInv /\ [Next]_vars => QueueInv'
<1> SUFFICES ASSUME QueueInv, [Next]_vars PROVE QueueInv'
  OBVIOUS
<1> USE QueueAssumption, PowerAssumption
<1> USE DEF QueueInv, TypeOK, ExclusiveClaim, Holding, AttemptsLeft, EffectsPaidFor,
            Holds, Executing, Statuses, Phases, Stages, rowVars, workerVars
<1>1. CASE Tick
  BY <1>1 DEF Tick
<1>2. ASSUME NEW p \in Procs, NEW t \in Tasks, Enqueue(p, t) PROVE QueueInv'
  BY <1>2 DEF Enqueue
<1>3. ASSUME NEW p \in Procs, WorkerStep(p) PROVE QueueInv'
  <2>1. CASE PollEmpty(p)      BY <2>1 DEF PollEmpty
  <2>2. CASE ClaimLock(p)      BY <2>2 DEF ClaimLock, Claimable, Due, Locked
  <2>3. CASE ClaimCommit(p)    BY <2>3 DEF ClaimCommit
  <2>4. CASE ClaimError(p)     BY <2>4 DEF ClaimError, Live
  <2>5. CASE Wake(p)           BY <2>5 DEF Wake
  <2>6. CASE Stop(p)           BY <2>6 DEF Stop
  <2>7. CASE HandleOk(p)       BY <2>7 DEF HandleOk, MayAct
  <2>8. CASE HandleErr(p)      BY <2>8 DEF HandleErr, MayAct
  <2>9. CASE MarkCompleted(p)  BY <2>9 DEF MarkCompleted, Release
  <2>10. CASE MarkFailed(p)    BY <2>10 DEF MarkFailed, Exhausted, Release
  <2>11. CASE MarkLost(p)      BY <2>11 DEF MarkLost, Release
  <2>12. QED
    BY <1>3, <2>1, <2>2, <2>3, <2>4, <2>5, <2>6, <2>7, <2>8, <2>9, <2>10, <2>11
    DEF WorkerStep
<1>4. ASSUME NEW p \in Procs, ServerStep(p) PROVE QueueInv'
  <2>1. CASE Signal(p)         BY <2>1 DEF Signal
  <2>2. CASE Cancel(p)         BY <2>2 DEF Cancel
  <2>3. CASE Exit(p)           BY <2>3 DEF Exit
  <2>4. CASE Restart(p)        BY <2>4 DEF Restart
  <2>5. CASE Die(p)            BY <2>5 DEF Die, MayAct
  <2>6. QED
    BY <1>4, <2>1, <2>2, <2>3, <2>4, <2>5 DEF ServerStep, DrainTimeout, Crash
<1>5. CASE UNCHANGED vars
  BY <1>5 DEF vars
<1>6. QED
  BY <1>1, <1>2, <1>3, <1>4, <1>5 DEF Next

LEMMA AlwaysInv == Spec => []QueueInv
  BY InitInv, NextInv, PTL DEF Spec

-----------------------------------------------------------------------------
\* The variables have their types in every reachable state.
THEOREM TypeCorrect == Spec => []TypeOK
<1>1. QueueInv => TypeOK
  BY DEF QueueInv
<1>2. QED
  BY <1>1, AlwaysInv, PTL

\* FOR UPDATE SKIP LOCKED makes the claim safe for any number of processes.
THEOREM ClaimIsExclusive == Spec => []ExclusiveClaim
<1>1. QueueInv => ExclusiveClaim
  BY DEF QueueInv
<1>2. QED
  BY <1>1, AlwaysInv, PTL

\* Attempts, effects and burials agree for any max_attempts.
THEOREM AttemptsAccounted == Spec => []AttemptAccounting
<1>1. QueueInv => AttemptAccounting
  <2> SUFFICES ASSUME QueueInv, NEW t \in Tasks
               PROVE  /\ sends[t] <= attempts[t] + (IF status[t] \in {"processing", "completed"} THEN 1 ELSE 0)
                      /\ sends[t] <= MaxAttempts
                      /\ status[t] = "dead" <=> attempts[t] = MaxAttempts
    BY DEF AttemptAccounting
  <2> QED
    BY QueueAssumption DEF QueueInv, TypeOK, AttemptsLeft, EffectsPaidFor, Statuses
<1>2. QED
  BY <1>1, AlwaysInv, PTL

-----------------------------------------------------------------------------
\* A processing row is being executed, or its worker was cut off.
Attended ==
    \A t \in Tasks : status[t] = "processing" =>
        t \in interrupted \/ \E p \in Procs : Executing(p) /\ job[p] = t

LEMMA NextAttended == QueueInv /\ Attended /\ [Next]_vars => Attended'
<1> SUFFICES ASSUME QueueInv, Attended, [Next]_vars, NEW t \in Tasks,
                    status'[t] = "processing", t \notin interrupted'
             PROVE  (\E p \in Procs : Executing(p) /\ job[p] = t)'
  BY DEF Attended
<1> USE QueueAssumption
<1> USE DEF QueueInv, TypeOK, ExclusiveClaim, Holding, Attended,
            Holds, Executing, Statuses, Phases, Stages, rowVars, workerVars
<1>1. CASE Tick
  BY <1>1 DEF Tick
<1>2. ASSUME NEW p \in Procs, NEW u \in Tasks, Enqueue(p, u)
      PROVE  (\E q \in Procs : Executing(q) /\ job[q] = t)'
  BY <1>2 DEF Enqueue
<1>3. ASSUME NEW p \in Procs, WorkerStep(p)
      PROVE  (\E q \in Procs : Executing(q) /\ job[q] = t)'
  <2>1. CASE PollEmpty(p)      BY <2>1 DEF PollEmpty
  <2>2. CASE ClaimLock(p)      BY <2>2 DEF ClaimLock
  <2>3. CASE ClaimCommit(p)    BY <2>3 DEF ClaimCommit
  <2>4. CASE ClaimError(p)     BY <2>4 DEF ClaimError
  <2>5. CASE Wake(p)           BY <2>5 DEF Wake
  <2>6. CASE Stop(p)           BY <2>6 DEF Stop
  <2>7. CASE HandleOk(p)       BY <2>7 DEF HandleOk, MayAct
  <2>8. CASE HandleErr(p)      BY <2>8 DEF HandleErr, MayAct
  <2>9. CASE MarkCompleted(p)  BY <2>9 DEF MarkCompleted, Release
  <2>10. CASE MarkFailed(p)    BY <2>10 DEF MarkFailed, Exhausted, Release
  <2>11. CASE MarkLost(p)      BY <2>11 DEF MarkLost, Release
  <2>12. QED
    BY <1>3, <2>1, <2>2, <2>3, <2>4, <2>5, <2>6, <2>7, <2>8, <2>9, <2>10, <2>11
    DEF WorkerStep
<1>4. ASSUME NEW p \in Procs, ServerStep(p)
      PROVE  (\E q \in Procs : Executing(q) /\ job[q] = t)'
  <2>1. CASE Signal(p)         BY <2>1 DEF Signal
  <2>2. CASE Cancel(p)         BY <2>2 DEF Cancel
  <2>3. CASE Exit(p)           BY <2>3 DEF Exit
  <2>4. CASE Restart(p)        BY <2>4 DEF Restart
  <2>5. CASE Die(p)            BY <2>5 DEF Die, MayAct
  <2>6. QED
    BY <1>4, <2>1, <2>2, <2>3, <2>4, <2>5 DEF ServerStep, DrainTimeout, Crash
<1>5. CASE UNCHANGED vars
  BY <1>5 DEF vars
<1>6. QED
  BY <1>1, <1>2, <1>3, <1>4, <1>5 DEF Next

\* Only a recorded interruption of its worker strands a row.
THEOREM OnlyInterruptionStrands == Spec => []StrandedOnlyByInterruption
<1>1. Init => Attended
  BY DEF Init, Attended
<1>2. Attended => StrandedOnlyByInterruption
  BY DEF Attended, StrandedOnlyByInterruption, Stranded, Holds
<1>3. QED
  BY <1>1, <1>2, NextAttended, AlwaysInv, PTL DEF Spec

-----------------------------------------------------------------------------
\* What one step may do to one row, as SettledForever and BackoffRespected
\* state it.
RowStep(t) ==
    /\ Settled(t) => UNCHANGED <<status[t], attempts[t], runAt[t], sends[t]>>
    /\ attempts'[t] \in {attempts[t], attempts[t] + 1}
    /\ attempts'[t] > attempts[t] /\ status'[t] = "pending" =>
          runAt'[t] >= now + 2^attempts'[t]
    /\ status[t] = "pending" /\ status'[t] # "pending" =>
          now >= runAt[t] /\ runAt'[t] = runAt[t]

\* A locked row was due when it was locked and is due until the claim ends.
LockedDue == \A p \in Procs : phase[p] = "claim" => runAt[job[p]] <= now

LEMMA NextRow == QueueInv /\ LockedDue /\ [Next]_vars =>
                    LockedDue' /\ \A t \in Tasks : RowStep(t)
<1> SUFFICES ASSUME QueueInv, LockedDue, [Next]_vars
             PROVE  LockedDue' /\ \A t \in Tasks : RowStep(t)
  OBVIOUS
<1> USE QueueAssumption, PowerAssumption
<1> USE DEF QueueInv, TypeOK, ExclusiveClaim, Holding, AttemptsLeft, LockedDue, RowStep,
            Settled, Holds, Executing, Statuses, Phases, Stages, rowVars, workerVars
<1>1. CASE Tick
  BY <1>1 DEF Tick
<1>2. ASSUME NEW p \in Procs, NEW t \in Tasks, Enqueue(p, t)
      PROVE  LockedDue' /\ \A u \in Tasks : RowStep(u)
  BY <1>2 DEF Enqueue
<1>3. ASSUME NEW p \in Procs, WorkerStep(p)
      PROVE  LockedDue' /\ \A u \in Tasks : RowStep(u)
  <2>1. CASE PollEmpty(p)      BY <2>1 DEF PollEmpty
  <2>2. CASE ClaimLock(p)      BY <2>2 DEF ClaimLock, Claimable, Due
  <2>3. CASE ClaimCommit(p)    BY <2>3 DEF ClaimCommit
  <2>4. CASE ClaimError(p)     BY <2>4 DEF ClaimError
  <2>5. CASE Wake(p)           BY <2>5 DEF Wake
  <2>6. CASE Stop(p)           BY <2>6 DEF Stop
  <2>7. CASE HandleOk(p)       BY <2>7 DEF HandleOk, MayAct
  <2>8. CASE HandleErr(p)      BY <2>8 DEF HandleErr, MayAct
  <2>9. CASE MarkCompleted(p)  BY <2>9 DEF MarkCompleted, Release
  <2>10. CASE MarkFailed(p)    BY <2>10 DEF MarkFailed, Exhausted, Release
  <2>11. CASE MarkLost(p)      BY <2>11 DEF MarkLost, Release
  <2>12. QED
    BY <1>3, <2>1, <2>2, <2>3, <2>4, <2>5, <2>6, <2>7, <2>8, <2>9, <2>10, <2>11
    DEF WorkerStep
<1>4. ASSUME NEW p \in Procs, ServerStep(p)
      PROVE  LockedDue' /\ \A u \in Tasks : RowStep(u)
  <2>1. CASE Signal(p)         BY <2>1 DEF Signal
  <2>2. CASE Cancel(p)         BY <2>2 DEF Cancel
  <2>3. CASE Exit(p)           BY <2>3 DEF Exit
  <2>4. CASE Restart(p)        BY <2>4 DEF Restart
  <2>5. CASE Die(p)            BY <2>5 DEF Die, MayAct
  <2>6. QED
    BY <1>4, <2>1, <2>2, <2>3, <2>4, <2>5 DEF ServerStep, DrainTimeout, Crash
<1>5. CASE UNCHANGED vars
  BY <1>5 DEF vars
<1>6. QED
  BY <1>1, <1>2, <1>3, <1>4, <1>5 DEF Next

LEMMA AlwaysLockedDue == Spec => []LockedDue
<1>1. Init => LockedDue
  BY DEF Init, LockedDue
<1>2. QED
  BY <1>1, NextRow, AlwaysInv, PTL DEF Spec

\* Completed and dead rows never change, attempts only grow by one.
THEOREM SettledRowsFinal == Spec => SettledForever
<1>1. QueueInv /\ LockedDue /\ [Next]_vars =>
        [\A t \in Tasks :
            /\ Settled(t) => UNCHANGED <<status[t], attempts[t], runAt[t], sends[t]>>
            /\ attempts'[t] \in {attempts[t], attempts[t] + 1}]_vars
  BY NextRow DEF RowStep
<1>2. QED
  BY <1>1, AlwaysInv, AlwaysLockedDue, PTL DEF Spec, SettledForever

\* The k-th retry starts at least 2^k minutes after the k-th failure.
THEOREM BackoffHolds == Spec => BackoffRespected
<1>1. QueueInv /\ LockedDue /\ [Next]_vars =>
        [\A t \in Tasks :
            /\ attempts'[t] > attempts[t] /\ status'[t] = "pending" =>
                  runAt'[t] >= now + 2^attempts'[t]
            /\ status[t] = "pending" /\ status'[t] # "pending" =>
                  now >= runAt[t] /\ runAt'[t] = runAt[t]]_vars
  BY NextRow DEF RowStep
<1>2. QED
  BY <1>1, AlwaysInv, AlwaysLockedDue, PTL DEF Spec, BackoffRespected

-----------------------------------------------------------------------------
\* Refinement: a step of the table and its workers is a step of RetryQueue or
\* leaves the abstract queue unchanged.
AbstractStep == [Abstract!Next]_(Abstract!queueVars)

\* A step that leaves the rows and the effects alone.
LEMMA StutterStep ==
    ASSUME UNCHANGED <<status, attempts, sends>>
    PROVE  AbstractStep
  BY DEF AbstractStep, Abstract!queueVars

\* Changing the status of one row changes its stage and no other.
MappedStage == [u \in Tasks |-> Stage[status[u]]]

LEMMA MapUpdate ==
    ASSUME TypeOK, NEW t \in Tasks, NEW to \in Statuses,
           status' = [status EXCEPT ![t] = to]
    PROVE  /\ MappedStage' = [MappedStage EXCEPT ![t] = Stage[to]]
           /\ MappedStage[t] = Stage[status[t]]
  BY DEF TypeOK, MappedStage

LEMMA StageValues ==
    /\ Stage["absent"] = "none"
    /\ Stage["pending"] = "waiting"
    /\ Stage["processing"] = "running"
    /\ Stage["completed"] = "done"
    /\ Stage["dead"] = "dead"
  BY DEF Stage

LEMMA StartStep ==
    ASSUME TypeOK, NEW t \in Tasks, status[t] = "pending",
           status' = [status EXCEPT ![t] = "processing"], UNCHANGED <<attempts, sends>>
    PROVE  AbstractStep
<1>1. Abstract!Start(t)
  BY MapUpdate, StageValues DEF Abstract!Start, MappedStage, Statuses
<1>2. QED
  BY <1>1 DEF AbstractStep, Abstract!Next

LEMMA SendStep ==
    ASSUME TypeOK, NEW t \in Tasks, status[t] = "processing", sends[t] <= attempts[t],
           sends' = [sends EXCEPT ![t] = @ + 1], UNCHANGED <<status, attempts>>
    PROVE  AbstractStep
<1>1. Abstract!Send(t)
  BY StageValues DEF Abstract!Send
<1>2. QED
  BY <1>1 DEF AbstractStep, Abstract!Next

LEMMA SucceedStep ==
    ASSUME TypeOK, NEW t \in Tasks, status[t] = "processing",
           status' = [status EXCEPT ![t] = "completed"], UNCHANGED <<attempts, sends>>
    PROVE  AbstractStep
<1>1. Abstract!Succeed(t)
  BY MapUpdate, StageValues DEF Abstract!Succeed, MappedStage, Statuses
<1>2. QED
  BY <1>1 DEF AbstractStep, Abstract!Next

LEMMA FailStep ==
    ASSUME TypeOK, AttemptsLeft, NEW t \in Tasks, status[t] = "processing",
           status' = [status EXCEPT ![t] = IF Exhausted(t) THEN "dead" ELSE "pending"],
           attempts' = [attempts EXCEPT ![t] = @ + 1], UNCHANGED sends
    PROVE  AbstractStep
<1>1. CASE Exhausted(t)
  <2>1. attempts[t] + 1 = MaxAttempts
    BY <1>1, QueueAssumption DEF Exhausted, AttemptsLeft, TypeOK
  <2>2. Abstract!Bury(t)
    BY <1>1, <2>1, MapUpdate, StageValues DEF Abstract!Bury, MappedStage, Statuses
  <2>3. QED
    BY <2>2 DEF AbstractStep, Abstract!Next
<1>2. CASE ~Exhausted(t)
  <2>1. attempts[t] + 1 < MaxAttempts
    BY <1>2, QueueAssumption DEF Exhausted, TypeOK
  <2>2. Abstract!Retry(t)
    BY <1>2, <2>1, MapUpdate, StageValues DEF Abstract!Retry, MappedStage, Statuses
  <2>3. QED
    BY <2>2 DEF AbstractStep, Abstract!Next
<1>3. QED
  BY <1>1, <1>2

LEMMA EnqueueStep ==
    ASSUME TypeOK, NEW p \in Procs, NEW t \in Tasks, Enqueue(p, t)
    PROVE  AbstractStep
<1>1. Abstract!Submit(t)
  BY MapUpdate, StageValues DEF Enqueue, Abstract!Submit, MappedStage, Statuses
<1>2. QED
  BY <1>1 DEF AbstractStep, Abstract!Next

LEMMA NextAbstract == QueueInv /\ [Next]_vars => AbstractStep
<1> SUFFICES ASSUME QueueInv, [Next]_vars PROVE AbstractStep
  OBVIOUS
<1> USE DEF QueueInv, ExclusiveClaim, Holding, EffectsPaidFor, Executing, rowVars, workerVars
<1>1. CASE Tick
  BY <1>1, StutterStep DEF Tick
<1>2. ASSUME NEW p \in Procs, NEW t \in Tasks, Enqueue(p, t) PROVE AbstractStep
  BY <1>2, EnqueueStep
<1>3. ASSUME NEW p \in Procs, WorkerStep(p) PROVE AbstractStep
  <2>1. CASE PollEmpty(p)      BY <2>1, StutterStep DEF PollEmpty
  <2>2. CASE ClaimLock(p)      BY <2>2, StutterStep DEF ClaimLock
  <2>3. CASE ClaimCommit(p)    BY <2>3, StartStep DEF ClaimCommit
  <2>4. CASE ClaimError(p)     BY <2>4, StartStep, StutterStep DEF ClaimError
  <2>5. CASE Wake(p)           BY <2>5, StutterStep DEF Wake
  <2>6. CASE Stop(p)           BY <2>6, StutterStep DEF Stop
  <2>7. CASE HandleOk(p)   BY <2>7, SendStep, StutterStep DEF HandleOk, MayAct
  <2>8. CASE HandleErr(p)  BY <2>8, SendStep, StutterStep DEF HandleErr, MayAct
  <2>9. CASE MarkCompleted(p)  BY <2>9, SucceedStep DEF MarkCompleted
  <2>10. CASE MarkFailed(p)    BY <2>10, FailStep DEF MarkFailed
  <2>11. CASE MarkLost(p)      BY <2>11, StutterStep DEF MarkLost
  <2>12. QED
    BY <1>3, <2>1, <2>2, <2>3, <2>4, <2>5, <2>6, <2>7, <2>8, <2>9, <2>10, <2>11
    DEF WorkerStep
<1>4. ASSUME NEW p \in Procs, ServerStep(p) PROVE AbstractStep
  <2>1. CASE Signal(p)         BY <2>1, StutterStep DEF Signal
  <2>2. CASE Cancel(p)         BY <2>2, StutterStep DEF Cancel
  <2>3. CASE Exit(p)           BY <2>3, StutterStep DEF Exit
  <2>4. CASE Restart(p)        BY <2>4, StutterStep DEF Restart
  <2>5. CASE Die(p)            BY <2>5, StartStep, SendStep, StutterStep DEF Die, MayAct
  <2>6. QED
    BY <1>4, <2>1, <2>2, <2>3, <2>4, <2>5 DEF ServerStep, DrainTimeout, Crash
<1>5. CASE UNCHANGED vars
  BY <1>5, StutterStep DEF vars
<1>6. QED
  BY <1>1, <1>2, <1>3, <1>4, <1>5 DEF Next

\* The queue the rest of the API relies on is implemented, for any number of
\* processes and tasks and any max_attempts.
THEOREM Refinement == Spec => ImplementsRetryQueue
<1>1. Init => Abstract!Init
  BY DEF Init, Abstract!Init, Stage
<1>2. QED
  BY <1>1, AlwaysInv, NextAbstract, PTL
  DEF Spec, ImplementsRetryQueue, Abstract!Spec, AbstractStep
=============================================================================
