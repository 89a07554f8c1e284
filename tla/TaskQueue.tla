------------------------------ MODULE TaskQueue ------------------------------
(***************************************************************************)
(* The background job queue: the task_queue table, data.TaskModel.Insert,  *)
(* and the worker loop worker.Pool.Run of every API process, together with *)
(* the part of App.Serve that starts and stops that loop.                  *)
(*                                                                         *)
(* A process runs one worker goroutine.  The goroutine claims the oldest   *)
(* due row with UPDATE ... FOR UPDATE SKIP LOCKED, runs the handler of its *)
(* job type, and records the result with a second statement.  Each         *)
(* statement is an autocommitted transaction of its own, so a process may  *)
(* die, or its context be cancelled, between any two of them.              *)
(*                                                                         *)
(* The claim is two steps, since the statement holds the row lock for a    *)
(* while: ClaimLock takes the lock, ClaimCommit makes the row processing.  *)
(***************************************************************************)
EXTENDS Naturals

CONSTANTS Procs,        \* API processes, each with its worker goroutine
          Tasks,        \* rows that may be inserted in task_queue
          Unhandled,    \* tasks whose job type or payload no handler accepts
          MaxAttempts,  \* column max_attempts (3 by default)
          Disruptions,  \* which of DisruptionKinds may happen
          NoTask        \* what a worker without a row holds

\* A signal, srv.Shutdown giving up, the process dying, a statement failing.
DisruptionKinds == {"shutdown", "timeout", "crash", "db"}

ASSUME QueueAssumption ==
    /\ Unhandled \subseteq Tasks
    /\ MaxAttempts \in Nat \ {0}
    /\ Disruptions \subseteq DisruptionKinds
    /\ NoTask \notin Tasks

\* Arithmetic the provers have no theory for; TLC evaluates it on every run.
ASSUME PowerAssumption == \A k \in 1..MaxAttempts : 2^k \in Nat

VARIABLES
    status,       \* status[t]: task_queue.status; "absent" before the INSERT
    attempts,     \* attempts[t]: task_queue.attempts
    runAt,        \* runAt[t]: task_queue.run_at, in minutes
    now,          \* the database clock, in minutes
    server,       \* server[p]: stage of App.Serve in process p
    phase,        \* phase[p]: where the worker goroutine of p is in Run
    job,          \* job[p]: the row the worker of p has locked or claimed
    sends,        \* history: times the effect of t became visible outside
    interrupted   \* history: tasks whose worker was cut off while it held them

rowVars    == <<status, attempts, runAt>>
workerVars == <<phase, job>>
vars == <<status, attempts, runAt, now, server, phase, job, sends, interrupted>>

Statuses == {"absent", "pending", "processing", "completed", "dead"}
Phases   == {"poll", "claim", "run", "ok", "err", "sleep", "stopped"}
Stages   == {"up", "draining", "cancelled", "down"}

Init == /\ status = [t \in Tasks |-> "absent"]
        /\ attempts = [t \in Tasks |-> 0]
        /\ runAt = [t \in Tasks |-> 0]
        /\ now = 0
        /\ server = [p \in Procs |-> "up"]
        /\ phase = [p \in Procs |-> "poll"]
        /\ job = [p \in Procs |-> NoTask]
        /\ sends = [t \in Tasks |-> 0]
        /\ interrupted = {}

-----------------------------------------------------------------------------
\* A worker whose claim statement returned a row, until the row's result is
\* recorded.
Executing(p) == phase[p] \in {"run", "ok", "err"}
Holds(p, t)  == job[p] = t /\ (Executing(p) \/ phase[p] = "claim")

Settled(t) == status[t] \in {"completed", "dead"}
\* A row nobody works on and nobody will ever claim again.
Stranded(t) == status[t] = "processing" /\ \A p \in Procs : ~Holds(p, t)

-----------------------------------------------------------------------------
(* The table: enqueueing and time.                                         *)

Enqueue(p, t) ==
    /\ server[p] \in {"up", "draining"}
    /\ status[t] = "absent"
    /\ status' = [status EXCEPT ![t] = "pending"]
    /\ runAt' = [runAt EXCEPT ![t] = now]
    /\ UNCHANGED <<attempts, now, server, workerVars, sends, interrupted>>

\* Time is observable only through run_at, so the clock moves only while some
\* row waits for it; this keeps it bounded without a horizon.
Tick ==
    /\ \E t \in Tasks : status[t] = "pending" /\ runAt[t] > now
    /\ now' = now + 1
    /\ UNCHANGED <<rowVars, server, workerVars, sends, interrupted>>

-----------------------------------------------------------------------------
(* claimNext                                                               *)

Due(t)    == status[t] = "pending" /\ runAt[t] <= now
Locked(t) == \E p \in Procs : phase[p] = "claim" /\ job[p] = t

\* Mutants of Claimable: no row lock; backed-off rows are claimable too.
ClaimableIgnoringLocks   == {t \in Tasks : Due(t)}
ClaimableIgnoringBackoff == {t \in Tasks : status[t] = "pending" /\ ~Locked(t)}

Claimable == {t \in Tasks : Due(t) /\ ~Locked(t)}

\* Run's test of ctx.Done() at the top of the loop.
Live(p) == server[p] \in {"up", "draining"}

PollEmpty(p) ==
    /\ phase[p] = "poll" /\ Live(p)
    /\ Claimable = {}
    /\ phase' = [phase EXCEPT ![p] = "sleep"]
    /\ UNCHANGED <<rowVars, now, server, job, sends, interrupted>>

\* ORDER BY run_at LIMIT 1 FOR UPDATE SKIP LOCKED
ClaimLock(p) ==
    /\ phase[p] = "poll" /\ Live(p)
    /\ \E t \in Claimable :
          /\ \A u \in Claimable : runAt[t] <= runAt[u]
          /\ job' = [job EXCEPT ![p] = t]
    /\ phase' = [phase EXCEPT ![p] = "claim"]
    /\ UNCHANGED <<rowVars, now, server, sends, interrupted>>

ClaimCommit(p) ==
    /\ phase[p] = "claim"
    /\ status' = [status EXCEPT ![job[p]] = "processing"]
    /\ phase' = [phase EXCEPT ![p] = "run"]
    /\ UNCHANGED <<attempts, runAt, now, server, job, sends, interrupted>>

\* QueryRow returns an error.  The statement took no effect, or it committed
\* and only the reply was lost.  Cancellation ends Run, any other error is
\* followed by a sleep.
ClaimError(p) ==
    /\ phase[p] = "claim"
    /\ ~Live(p) \/ "db" \in Disruptions
    /\ \/ UNCHANGED <<status, interrupted>>
       \/ /\ status' = [status EXCEPT ![job[p]] = "processing"]
          /\ interrupted' = interrupted \cup {job[p]}
    /\ phase' = [phase EXCEPT ![p] = IF Live(p) THEN "sleep" ELSE "stopped"]
    /\ job' = [job EXCEPT ![p] = NoTask]
    /\ UNCHANGED <<attempts, runAt, now, server, sends>>

Wake(p) ==
    /\ phase[p] = "sleep"
    /\ phase' = [phase EXCEPT ![p] = "poll"]
    /\ UNCHANGED <<rowVars, now, server, job, sends, interrupted>>

\* ctx.Done() at the top of the loop or inside sleep.
Stop(p) ==
    /\ phase[p] \in {"poll", "sleep"} /\ server[p] = "cancelled"
    /\ phase' = [phase EXCEPT ![p] = "stopped"]
    /\ UNCHANGED <<rowVars, now, server, job, sends, interrupted>>

-----------------------------------------------------------------------------
(* Dispatcher.Handle and the job handlers                                  *)

\* What a handler has done to the outside world when it ends.
MayAct(t) == sends' \in {sends, [sends EXCEPT ![t] = @ + 1]}

\* sendIfDeliverable may decide not to send, and that counts as success.
HandleOk(p) ==
    /\ phase[p] = "run"
    /\ job[p] \notin Unhandled
    /\ MayAct(job[p])
    /\ phase' = [phase EXCEPT ![p] = "ok"]
    /\ UNCHANGED <<rowVars, now, server, job, interrupted>>

\* A handler may fail before or after the effect is visible: the mail provider
\* accepts the message and the reply times out.  An unknown job type and a
\* payload that does not decode fail before.
HandleErr(p) ==
    /\ phase[p] = "run"
    /\ IF job[p] \in Unhandled THEN UNCHANGED sends ELSE MayAct(job[p])
    /\ phase' = [phase EXCEPT ![p] = "err"]
    /\ UNCHANGED <<rowVars, now, server, job, interrupted>>

-----------------------------------------------------------------------------
(* markCompleted and markFailed                                            *)

Release(p) == /\ phase' = [phase EXCEPT ![p] = "poll"]
              /\ job' = [job EXCEPT ![p] = NoTask]

MarkCompleted(p) ==
    /\ phase[p] = "ok" /\ Live(p)
    /\ status' = [status EXCEPT ![job[p]] = "completed"]
    /\ Release(p)
    /\ UNCHANGED <<attempts, runAt, now, server, sends, interrupted>>

\* Mutant: off by one.
ExhaustedLate(t) == attempts[t] >= MaxAttempts

Exhausted(t) == attempts[t] + 1 >= MaxAttempts

\* Mutant: the row is not put back.
MarkFailedParking(p) ==
    /\ phase[p] = "err" /\ Live(p)
    /\ attempts' = [attempts EXCEPT ![job[p]] = @ + 1]
    /\ status' = [status EXCEPT ![job[p]] = IF Exhausted(job[p]) THEN "dead" ELSE @]
    /\ Release(p)
    /\ UNCHANGED <<runAt, now, server, sends, interrupted>>

MarkFailed(p) ==
    LET t == job[p] IN
    /\ phase[p] = "err" /\ Live(p)
    /\ status' = [status EXCEPT ![t] = IF Exhausted(t) THEN "dead" ELSE "pending"]
    /\ attempts' = [attempts EXCEPT ![t] = @ + 1]
    /\ runAt' = [runAt EXCEPT ![t] = IF Exhausted(t) THEN @ ELSE now + 2^(attempts[t] + 1)]
    /\ Release(p)
    /\ UNCHANGED <<now, server, sends, interrupted>>

\* Mutant: the worker insists on recording its result.
MarkLostRetrying(p) ==
    /\ phase[p] \in {"ok", "err"}
    /\ ~Live(p) \/ "db" \in Disruptions
    /\ interrupted' = interrupted \cup {job[p]}
    /\ UNCHANGED <<rowVars, now, server, workerVars, sends>>

\* The bookkeeping statement fails, as it always does once ctx is cancelled.
\* The error is logged and the row keeps the status "processing".
MarkLost(p) ==
    /\ phase[p] \in {"ok", "err"}
    /\ ~Live(p) \/ "db" \in Disruptions
    /\ interrupted' = interrupted \cup {job[p]}
    /\ Release(p)
    /\ UNCHANGED <<rowVars, now, server, sends>>

-----------------------------------------------------------------------------
(* App.Serve                                                               *)

\* SIGTERM: srv.Shutdown waits for the requests in flight.
Signal(p) ==
    /\ "shutdown" \in Disruptions
    /\ server[p] = "up"
    /\ server' = [server EXCEPT ![p] = "draining"]
    /\ UNCHANGED <<rowVars, now, workerVars, sends, interrupted>>

\* Requests drained in time: cancel() and then wg.Wait().
Cancel(p) ==
    /\ server[p] = "draining"
    /\ server' = [server EXCEPT ![p] = "cancelled"]
    /\ UNCHANGED <<rowVars, now, workerVars, sends, interrupted>>

\* wg.Wait returned: the process exits.
Exit(p) ==
    /\ server[p] = "cancelled" /\ phase[p] = "stopped"
    /\ server' = [server EXCEPT ![p] = "down"]
    /\ UNCHANGED <<rowVars, now, workerVars, sends, interrupted>>

\* The process ends under its worker.  A claim in flight commits or not; a
\* handler in flight has acted or not.
Die(p) ==
    /\ server' = [server EXCEPT ![p] = "down"]
    /\ phase' = [phase EXCEPT ![p] = "stopped"]
    /\ job' = [job EXCEPT ![p] = NoTask]
    /\ IF phase[p] = "claim"
         THEN status' \in {status, [status EXCEPT ![job[p]] = "processing"]}
         ELSE UNCHANGED status
    /\ IF phase[p] = "run" /\ job[p] \notin Unhandled
         THEN MayAct(job[p]) ELSE UNCHANGED sends
    /\ interrupted' = IF phase[p] = "claim" \/ Executing(p)
                        THEN interrupted \cup {job[p]} ELSE interrupted
    /\ UNCHANGED <<attempts, runAt, now>>

\* srv.Shutdown gives up after 30 s: Serve returns and main exits, without
\* cancel() and without waiting for the worker.
DrainTimeout(p) == "timeout" \in Disruptions /\ server[p] = "draining" /\ Die(p)

Crash(p) == "crash" \in Disruptions /\ server[p] # "down" /\ Die(p)

Restart(p) ==
    /\ server[p] = "down"
    /\ server' = [server EXCEPT ![p] = "up"]
    /\ phase' = [phase EXCEPT ![p] = "poll"]
    /\ UNCHANGED <<rowVars, now, job, sends, interrupted>>

-----------------------------------------------------------------------------
WorkerStep(p) ==
    \/ PollEmpty(p) \/ ClaimLock(p) \/ ClaimCommit(p) \/ ClaimError(p)
    \/ Wake(p) \/ Stop(p)
    \/ HandleOk(p) \/ HandleErr(p)
    \/ MarkCompleted(p) \/ MarkFailed(p) \/ MarkLost(p)

ServerStep(p) ==
    Signal(p) \/ Cancel(p) \/ Exit(p) \/ DrainTimeout(p) \/ Crash(p) \/ Restart(p)

Next == \/ Tick
        \/ \E p \in Procs : WorkerStep(p) \/ ServerStep(p)
        \/ \E p \in Procs, t \in Tasks : Enqueue(p, t)

Spec == Init /\ [][Next]_vars

\* The goroutine keeps running, handlers and statements return, the clock
\* advances, a shutdown that has begun goes on, and a process that ended is
\* started again.  The database does not fail for ever: a worker that claims
\* again and again gets a commit through.  Nothing forces a request to enqueue a
\* task, or a signal, a crash or a database error to happen.
Fairness == /\ WF_vars(Tick)
            /\ \A p \in Procs : /\ WF_vars(WorkerStep(p))
                                /\ SF_vars(ClaimCommit(p))
                                /\ WF_vars(Cancel(p))
                                /\ WF_vars(Exit(p))
                                /\ WF_vars(Restart(p))

FairSpec == Spec /\ Fairness

-----------------------------------------------------------------------------
(* Properties                                                              *)

\* Types of all variables, and the row a worker holds is one it has claimed.
TypeOK ==
    /\ status \in [Tasks -> Statuses]
    /\ attempts \in [Tasks -> 0..MaxAttempts]
    /\ runAt \in [Tasks -> Nat]
    /\ now \in Nat
    /\ server \in [Procs -> Stages]
    /\ phase \in [Procs -> Phases]
    /\ job \in [Procs -> Tasks \cup {NoTask}]
    /\ sends \in [Tasks -> Nat]
    /\ interrupted \subseteq Tasks

\* "FOR UPDATE SKIP LOCKED makes this safe across multiple worker processes"
\* (worker.go:77): no two workers ever have the same row, not even while one
\* of them is still inside its claim statement, and the row a worker executes
\* is still marked processing.
ExclusiveClaim ==
    /\ \A p, q \in Procs, t \in Tasks : Holds(p, t) /\ Holds(q, t) => p = q
    /\ \A p \in Procs : Executing(p) => status[job[p]] = "processing"

\* Every attempt reaches the outside world at most once and every further one
\* follows a failure on record, whatever crashes, cancellations and lost
\* replies come between: a recipient gets at most max_attempts copies of a
\* mail, and a row is buried only when all attempts have been used.  RetryQueue
\* says as much of its own jobs, so that the runs check it there.
AttemptAccounting ==
    \A t \in Tasks :
        /\ sends[t] <= attempts[t] + (IF status[t] \in {"processing", "completed"} THEN 1 ELSE 0)
        /\ sends[t] <= MaxAttempts
        /\ status[t] = "dead" <=> attempts[t] = MaxAttempts

\* No row is lost by the protocol itself: a processing row has a worker on it
\* unless an interruption of its worker is on record.
StrandedOnlyByInterruption ==
    \A t \in Tasks : Stranded(t) => t \in interrupted

\* A row that is completed or dead is never touched again (markCompleted and
\* markFailed have no status guard of their own), and attempts only grow.
SettledForever ==
    [][\A t \in Tasks :
          /\ Settled(t) => UNCHANGED <<status[t], attempts[t], runAt[t], sends[t]>>
          /\ attempts'[t] \in {attempts[t], attempts[t] + 1}]_vars

\* Backoff: whenever a worker takes up a row again after its k-th failure, at
\* least 2^k minutes have passed since markFailed recorded that failure: the
\* run_at it wrote is still in the row, and the claim waited for it.
BackoffRespected ==
    [][\A t \in Tasks :
          /\ attempts'[t] > attempts[t] /\ status'[t] = "pending" =>
                runAt'[t] >= now + 2^attempts'[t]
          /\ status[t] = "pending" /\ status'[t] # "pending" =>
                now >= runAt[t] /\ runAt'[t] = runAt[t]]_vars

\* The table with its workers implements the abstract queue.
Stage == [absent |-> "none", pending |-> "waiting", processing |-> "running",
          completed |-> "done", dead |-> "dead"]

Abstract == INSTANCE RetryQueue WITH
                stage <- [t \in Tasks |-> Stage[status[t]]],
                tries <- attempts

ImplementsRetryQueue == Abstract!Spec

\* "Failed tasks retry with exponential backoff.  After 3 attempts, tasks are
\* marked dead" (README.md:231): while every process stays up, each inserted
\* row is completed or dead in the end, a row nobody can handle included,
\* unless its claim or its result could not be recorded.
EveryTaskSettles ==
    \A t \in Tasks : status[t] = "pending" ~>
                        Settled(t) \/ t \in interrupted \/ \E p \in Procs : server[p] # "up"

\* App.Serve returns once a signal has arrived: wg.Wait does not wait for a
\* worker that sleeps, polls or cannot record its result.
ShutdownCompletes ==
    \A p \in Procs : server[p] = "draining" ~> server[p] = "down"

\* The same sentence for one attempt: a task whose handler failed is pending
\* again or dead some day.
FailedTaskRetried ==
    \A p \in Procs, t \in Tasks :
        (phase[p] = "err" /\ job[p] = t) ~> status[t] \in {"pending", "dead"}
=============================================================================
