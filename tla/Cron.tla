-------------------------------- MODULE Cron --------------------------------
(***************************************************************************)
(* The cron loop of internal/worker/cron.go, one goroutine per process,    *)
(* the admin requests that run a job at once, and the cron_run table that  *)
(* coordinates them.                                                       *)
(*                                                                         *)
(* There are two kinds of job.  A daily job (deadline_reminders,           *)
(* recalculate_ratings) claims the row (job, day) by inserting it.  A      *)
(* sweep (cleanup_sessions, purge_deleted_users) looks at when it last     *)
(* started and then upserts the row.  Jobs of one kind differ in their     *)
(* hours and their work only, so the module follows one of each: the       *)
(* reminders, one task per user, and the cleanup, one DELETE.              *)
(*                                                                         *)
(* Every statement is a transaction of its own.  An instance follows the   *)
(* clock through the hours of a few short days.                            *)
(***************************************************************************)
EXTENDS Naturals

CONSTANTS Procs,       \* processes, each with a cron goroutine
          Admins,      \* admin requests that may be running at once
          Users,       \* users with a bookmark that is due, on every day
          LastDay, LastHour,   \* days 0..LastDay of hours 0..LastHour
          DailyHour, SweepHours,
          Faults       \* which of FaultKinds may happen

\* A statement fails, a runner is cut off, a check takes more than an hour.
FaultKinds == {"db", "crash", "slow"}

Days    == 0..LastDay
Hours   == 0..LastHour
Runners == Procs \union Admins

ASSUME CronAssumption ==
    /\ Procs # {} /\ Procs \intersect Admins = {}
    /\ LastDay \in Nat /\ LastHour \in Nat
    /\ DailyHour \in Hours
    /\ SweepHours \subseteq Hours
    /\ Faults \subseteq FaultKinds

VARIABLES
    day, hour,   \* the clock, in Lagos
    daily,       \* daily[d]: the daily job's row of day d
    lastSweep,   \* the greatest started_at of the sweep's rows, as <<day, hour>>
    pc,          \* pc[r]: what runner r does next
    run,         \* run[r]: the day of the row runner r has claimed
    todo,        \* todo[r]: recipients r has found and not enqueued
    checked,     \* processes that ended a check in this hour
    sent,        \* history: sent[d][u], reminders for u enqueued under day d's row
    swept,       \* history: the times at which a sweep was started
    fresh,       \* history: processes that started no sweep in this hour
    troubled     \* history: days with a failed statement, a crash or an overrun

clock == <<day, hour>>
rows  == <<daily, lastSweep>>
past  == <<sent, swept, fresh>>
vars  == <<day, hour, daily, lastSweep, pc, run, todo, checked,
           sent, swept, fresh, troubled>>

RowStates == {"none", "started", "completed"}
Phases == {"idle", "daily", "find", "enqueue", "sweep", "upsert", "delete"}

Init == /\ day = 0 /\ hour = 0
        /\ daily = [d \in Days |-> "none"]
        /\ lastSweep = <<>>
        /\ pc = [r \in Runners |-> "idle"]
        /\ run = [r \in Runners |-> 0]
        /\ todo = [r \in Runners |-> {}]
        /\ checked = {}
        /\ sent = [d \in Days |-> [u \in Users |-> 0]]
        /\ swept = {}
        /\ fresh = Procs
        /\ troubled = {}

Goto(r, phase) == pc' = [pc EXCEPT ![r] = phase]
Forget(r)      == run' = [run EXCEPT ![r] = 0]

\* A process goes on with its check, a request has been answered.
AfterDaily(r) == /\ Goto(r, IF r \in Procs THEN "sweep" ELSE "idle")
                 /\ Forget(r)

EndCheck(r) == /\ Goto(r, "idle")
               /\ Forget(r)
               /\ checked' = checked \union ({r} \intersect Procs)

Fault(kind, d) == kind \in Faults /\ troubled' = troubled \union {d}

-----------------------------------------------------------------------------
(* Daily jobs                                                              *)

\* The ticker fires; runScheduledChecks begins with the daily jobs.
Wake(p) == /\ pc[p] = "idle"
           /\ Goto(p, "daily")
           /\ UNCHANGED <<clock, rows, run, todo, checked, past, troubled>>

\* Mutants: ON CONFLICT DO UPDATE; one row for all days.
ClaimableAlways(d) == d \in Days
ClaimableOnce(d)   == \A e \in Days : daily[e] = "none"

\* INSERT ... ON CONFLICT DO NOTHING returns a row.
Claimable(d) == daily[d] = "none"

\* Not the hour, or the row is there.
SkipDaily(p) ==
    /\ pc[p] = "daily"
    /\ hour # DailyHour \/ ~Claimable(day)
    /\ AfterDaily(p)
    /\ UNCHANGED <<clock, rows, todo, checked, past, troubled>>

\* An admin request asks for no particular hour; if the row is there it is
\* answered with ErrAlreadyRanToday, and nothing happens.
ClaimDaily(r) ==
    /\ IF r \in Procs THEN pc[r] = "daily" /\ hour = DailyHour ELSE pc[r] = "idle"
    /\ Claimable(day)
    /\ daily' = [daily EXCEPT ![day] = "started"]
    /\ run' = [run EXCEPT ![r] = day]
    /\ Goto(r, "find")
    /\ UNCHANGED <<clock, lastSweep, todo, checked, past, troubled>>

\* The INSERT fails, or takes effect and only its reply is lost.
ClaimFails(r) ==
    /\ IF r \in Procs THEN pc[r] = "daily" /\ hour = DailyHour ELSE pc[r] = "idle"
    /\ Fault("db", day)
    /\ \/ UNCHANGED daily
       \/ Claimable(day) /\ daily' = [daily EXCEPT ![day] = "started"]
    /\ AfterDaily(r)
    /\ UNCHANGED <<clock, lastSweep, todo, checked, past>>

\* FindDeadlineReminderRecipients; an error counts as nobody found.
Find(r) ==
    /\ pc[r] = "find"
    /\ \/ todo' = [todo EXCEPT ![r] = Users] /\ UNCHANGED troubled
       \/ UNCHANGED todo /\ Fault("db", run[r])
    /\ Goto(r, "enqueue")
    /\ UNCHANGED <<clock, rows, run, checked, past>>

OneMore(row, u) == [row EXCEPT ![u] = row[u] + 1]

\* One INSERT INTO task_queue; an error is logged and the loop goes on.
Enqueue(r, u) ==
    /\ pc[r] = "enqueue"
    /\ u \in todo[r]
    /\ todo' = [todo EXCEPT ![r] = todo[r] \ {u}]
    /\ \/ /\ sent' = [sent EXCEPT ![run[r]] = OneMore(sent[run[r]], u)]
          /\ UNCHANGED troubled
       \/ Fault("db", run[r]) /\ UNCHANGED sent
    /\ UNCHANGED <<clock, rows, pc, run, checked, swept, fresh>>

AllEnqueued(r) == pc[r] = "enqueue" /\ todo[r] = {}

\* completed_at is written, however few tasks were.
CompleteDaily(r) ==
    /\ AllEnqueued(r)
    /\ \/ /\ daily' = [daily EXCEPT ![run[r]] = "completed"]
          /\ UNCHANGED troubled
       \/ Fault("db", run[r]) /\ UNCHANGED daily
    /\ AfterDaily(r)
    /\ UNCHANGED <<clock, lastSweep, todo, checked, past>>

-----------------------------------------------------------------------------
(* Sweeps                                                                  *)

\* Mutants: no comparison; only the days are compared.
StartedThisHourNever == FALSE
StartedThisHourToday == lastSweep # <<>> /\ lastSweep[1] = day

StartedThisHour == lastSweep = clock

SweepDue == hour \in SweepHours /\ ~StartedThisHour

LookSweep(p) ==
    /\ pc[p] = "sweep"
    /\ SweepDue
    /\ Goto(p, "upsert")
    /\ UNCHANGED <<clock, rows, run, todo, checked, past, troubled>>

SkipSweep(p) ==
    /\ pc[p] = "sweep"
    /\ \/ ~SweepDue /\ UNCHANGED troubled
       \/ Fault("db", day)
    /\ EndCheck(p)
    /\ UNCHANGED <<clock, rows, todo, past>>

\* RunCleanupSessionsNow: no hour, no look.
ManualSweep(a) ==
    /\ pc[a] = "idle"
    /\ Goto(a, "upsert")
    /\ UNCHANGED <<clock, rows, run, todo, checked, past, troubled>>

\* INSERT ... ON CONFLICT DO UPDATE SET started_at = now(), completed_at =
\* NULL.  Nothing reads completed_at of a sweep but the panel of recent jobs.
Upsert(r) ==
    /\ pc[r] = "upsert"
    /\ lastSweep' = clock
    /\ swept' = swept \union {clock}
    /\ fresh' = fresh \ {r}
    /\ Goto(r, "delete")
    /\ UNCHANGED <<clock, daily, run, todo, checked, sent, troubled>>

\* It fails, or takes effect and only its reply is lost; nothing is deleted, but
\* in the second case the hour counts as swept.
UpsertFails(r) ==
    /\ pc[r] = "upsert"
    /\ Fault("db", day)
    /\ lastSweep' \in {lastSweep, clock}
    /\ EndCheck(r)
    /\ UNCHANGED <<clock, daily, todo, past>>

\* The DELETE succeeds or fails; the check is over either way.
Delete(r) ==
    /\ pc[r] = "delete"
    /\ EndCheck(r)
    /\ UNCHANGED <<clock, rows, todo, past, troubled>>

-----------------------------------------------------------------------------
\* The process dies and starts again; Cron checks at once.  A request whose
\* client has gone away fails in all its further statements.
Crash(r) ==
    /\ "crash" \in Faults
    /\ pc[r] # "idle"
    /\ troubled' = troubled \union {day}
                            \union (IF pc[r] \in {"find", "enqueue"} THEN {run[r]} ELSE {})
    /\ Goto(r, "idle")
    /\ Forget(r)
    /\ todo' = [todo EXCEPT ![r] = {}]
    /\ UNCHANGED <<clock, rows, checked, past>>

\* The ticker fires every 15 minutes, so a process checks several times an
\* hour, and ends a check in every hour unless one takes longer than that,
\* which is also trouble for the hour it runs into.
OnTime == \A p \in Procs : p \in checked /\ pc[p] = "idle"

Tick ==
    /\ IF hour < LastHour THEN hour' = hour + 1 /\ UNCHANGED day
                          ELSE day < LastDay /\ day' = day + 1 /\ hour' = 0
    /\ \/ OnTime /\ UNCHANGED troubled
       \/ "slow" \in Faults /\ troubled' = troubled \union {day, day'}
    /\ checked' = {}
    /\ fresh' = Procs
    /\ UNCHANGED <<rows, pc, run, todo, sent, swept>>

CheckStep(p) == Wake(p) \/ SkipDaily(p) \/ LookSweep(p) \/ SkipSweep(p)

RunnerStep(r) ==
    \/ ClaimDaily(r) \/ ClaimFails(r) \/ Find(r) \/ CompleteDaily(r)
    \/ \E u \in Users : Enqueue(r, u)
    \/ Upsert(r) \/ UpsertFails(r) \/ Delete(r)
    \/ Crash(r)

Next == \/ \E p \in Procs : CheckStep(p)
        \/ \E a \in Admins : ManualSweep(a)
        \/ \E r \in Runners : RunnerStep(r)
        \/ Tick

Spec == Init /\ [][Next]_vars

-----------------------------------------------------------------------------
\* Runner r has the daily row of day d and is still enqueueing.
AtWork(r, d) == pc[r] \in {"find", "enqueue"} /\ run[r] = d

TypeOK ==
    /\ day \in Days /\ hour \in Hours
    /\ daily \in [Days -> RowStates]
    /\ lastSweep \in {<<>>} \union (Days \X Hours)
    /\ pc \in [Runners -> Phases]
    /\ run \in [Runners -> Days]
    /\ todo \in [Runners -> SUBSET Users]
    /\ checked \subseteq Procs
    /\ sent \in [Days -> [Users -> Nat]]
    /\ swept \subseteq Days \X Hours
    /\ fresh \subseteq Procs
    /\ troubled \subseteq Days

\* "Daily idempotency via cron_run table is still enforced" (worker.go:145):
\* whatever processes, admin requests, crashes and restarts come together, no
\* user is sent two reminders under the row of one day.
RemindedOnce == \A d \in Days, u \in Users : sent[d][u] <= 1

\* On a day without a failure everybody is reminded, once the hour of the job
\* is over, unless an admin has the day's row and is still at it.
EveryoneReminded ==
    \A d \in Days \ troubled :
        d < day \/ (d = day /\ DailyHour < hour) =>
            \/ \E a \in Admins : AtWork(a, d)
            \/ \A u \in Users : sent[d][u] = 1

\* In every target hour of a day without a failure a sweep is started: the
\* guard of one hour does not swallow the next one's sweep.
NoMissedSweep ==
    \A d \in Days \ troubled, h \in SweepHours :
        d < day \/ (d = day /\ h < hour) =>
            <<d, h>> \in swept

\* "We only want to fire once per target hour" (cron.go:198): no process
\* starts a second sweep in one hour, not even after a restart.
SweepOncePerHour ==
    [][\A p \in Procs : Upsert(p) => p \in fresh]_vars
=============================================================================
