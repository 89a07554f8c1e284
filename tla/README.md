# TLA+ specifications of the GradConnect API

GradConnect is a Go service over PostgreSQL. What can go wrong in it is mostly
a matter of order: handlers of concurrent requests that read before they write,
jobs that are claimed, retried and lost, processes that stop in the middle.
These modules model those parts, TLC checks them on small instances, and TLAPS
proves what matters most for instances of every size.

Contents: [the system](#1-the-system), [modules](#2-modules-and-code),
[conventions](#3-conventions), [runs](#4-runs), [proofs](#5-proofs),
[where code and documents disagree](#6-where-code-and-documents-disagree),
[what is not modelled](#7-what-is-not-modelled), [plan](#8-plan).

## 1. The system

A process (`cmd/api`) serves HTTP and runs three goroutines that `App.Serve`
(`internal/app/server.go`) starts and stops: the worker loop, the cron loop and
the poller of SES events. Several processes share one database, at READ
COMMITTED; nothing else is shared but the object storage and the mail provider.
All coordination is in SQL: row locks, unique constraints, version columns and
the order of statements.

| Component | State | Operations | What is hard | What makes it correct |
|---|---|---|---|---|
| Task queue and worker (`worker/worker.go`, `jobs.go`, `data/tasks.go`) | `task_queue`: status, attempts, run_at; per process the claimed row | insert; claim `FOR UPDATE SKIP LOCKED`; handle; mark completed or failed; signal, drain, exit | two claims at once; failure between claim and result; cancelled contexts; backoff | one worker per row; bounded attempts and effects; nothing lost without an interruption; every row settles |
| Accounts (`app/auth.go`, `users.go`, `middleware.go`; `data/users.go`, `session.go`, `tokens.go`, `permissions.go`) | `app_user` with a version, `session`, `user_permission`, two token tables | register, sign in (password, Google), activate, resend, forgot, reset, change, edit, delete, restore, purge | a row read before the transaction that acts on it; whole-row updates; deletion against everything | grants follow verification; a password change cuts sessions off; no edit is lost |
| Rate limiter (`ratelimit/ratelimit.go`, `app/middleware.go`) | a map from keys to a counter and an expiry, per process | Allow, Peek, Reset, the cleanup loop | Peek and Allow are two critical sections; windows meet | bounds on calls and on guesses; a full window stays full |
| Cron loop (`worker/cron.go`, `app/admin.go`) | `cron_run`: a row per job and day | hourly checks, claims, the reminders, the rating run, the sweeps; admin requests for the same | several processes and admins at once; restarts inside the target hour | nobody is reminded twice or forgotten; one sweep per hour |
| Reviews and ratings (`app/reviews.go`, `data/reviews.go`, `employers.go`) | `review` rows; aggregate columns in `employer` | submit, edit, list, moderate, recalculate | moderation against edits; overlapping recalculations; lost tasks | the public reads what was moderated; aggregates converge |
| Bulk import (`app/admin.go`, `import_processor.go`, `data/import_jobs.go`, `storage/r2.go`) | `import_job`, the CSV file, the entities | upload, commit, attempt, row transactions, report, removal of the file | failures between storage and database; retries of a job whose file is gone | the report is true; files are removed, and not before they are read |
| Email deliverability (`worker/ses_events.go`, `app/workers.go`, `app/helpers.go`, `mailer/mailer.go`) | `app_user.email_status`, messages in SQS | receive, enqueue, delete; mark; check and send | duplicates and order of events; a check that is out of date when the mail goes; lost replies | no event is lost; a suppressed address has a cause and gets no more mails |
| Paged listings (`data/filters.go`, `types.go`, the `GetAll` queries, `data/analytics.go`) | none: tables, page number and size | fetch a page of one of nine endpoints | the table changes between two pages; three expressions of one status | a walk misses and repeats no more than the changes explain; the expressions agree |
| Employers, opportunities, assessments (`app/` and `data/` files of these names) | catalogue rows, some with a version | create, update in part, delete, upsert, recalculate | a read and a write in two statements, against imports and each other | a stale update is refused, and nothing else is |
| Bookmarks, applications (the same) | rows under unique constraints | create, update in part, remove | the same, without a version | only an overlap loses an update |
| Dashboard figures, uploads, share cards, health check, documents, configuration | none of their own | reads, single calls | little | - |

How they interact: every mail, import and recalculation is a row of
`task_queue`, inserted by a handler (mostly in the handler's own transaction) or
by cron; the worker's dispatcher calls the handler of its type. The cron loop
also purges the soft-deleted accounts and the expired sessions. Restoring,
purging and editing accounts meet in `app_user`; the purge also reaches reviews
(their author becomes NULL) and import jobs. The limiter is called from
`auth.go` before and after password comparisons and from the middleware.

## 2. Modules and code

| Module | Models | Reads as |
|---|---|---|
| `RetryQueue` | what users of the queue rely on | abstract specification |
| `TaskQueue` | table, workers, `Serve` | implements `RetryQueue` |
| `Accounts` | the account handlers and tables | state machine of request steps |
| `FixedWindow` | what the limiter promises for a key | abstract specification |
| `RateLimiter` | `MemoryLimiter` and its two uses | implements `FixedWindow` |
| `Cron` | the cron loop and the admin's requests for its jobs | state machine of runners |
| `Reviews` | reviews, moderation, recalculation | state machine of three groups |
| `Import` | upload handler, `processImport` and the worker around it | state machine of jobs, implements `RetryQueue` |
| `Deliverability` | mails to an address, the events about them, its suppression | state machine over `RetryQueue` |
| `Listings` | pages and filters of the listings, an opportunity's status | state machine of a visitor and a table |
| `Records` | employers, assessments, opportunities, applications, bookmarks | state machine of statements and two-step updates |
| `*Proofs` | theorems about the module of that name; `RequestProofs` about `RateLimiter` and `Listings` | TLAPS |
| `MC*` | model values and symmetry | TLC |

`PROJECT.json` maps every definition to its lines of code.

**TaskQueue.** One worker goroutine per process, as in `Pool.Run`: poll, claim,
run, record, sleep. The claim is a locking and a committing step, since the row
lock is held in between; every other statement is one step. `server[p]` follows
`App.Serve`: a signal lets requests drain, then the context is cancelled, then
the worker is awaited; the drain may time out, and then the process ends under
its worker. A bookkeeping statement under a cancelled context fails
(`MarkLost`), as it does with a lost connection. Handlers are reduced to one
effect that may or may not have happened when they return, with success or an
error: this is what `sendIfDeliverable` and the mailer leave to chance.
`interrupted` and `sends` are history. The clock moves only while a row waits
for its backoff, which keeps it bounded without a horizon.

**Accounts.** Follows one address, for the address is unique and never changes,
and the rows registered under it in turn. A handler is two steps: what it reads
before its first write (kept in `request[r]`), and the transaction. Transactions
that UPDATE the row are ordered by its lock. A sign-in that restores nothing is
ordered with nobody: its only write is the INSERT of the session, whose foreign
key takes a KEY SHARE lock that no such UPDATE waits for, so it may be
committed anywhere between the reading of the row and the end of the request,
and its session carries the password that was *read*. (Committed
between another transaction's DELETE of the sessions and its commit, it is what
the model has as committed just after.) Replacing a token is two steps,
because its DELETE does not see what another transaction has not committed.
Passwords are numbered, edits are sets of the requests that made them, so a lost
edit shows. History: `missed` names the password changes and deletions that a
request's copy of the row has not seen, `overtaken` the password a
session's sign-in missed.

**RateLimiter.** One key. Every method runs under the mutex and is one step;
the password comparison between `Peek` and `Allow` or `Reset` is not. `style`
keeps the two uses apart: no key is used in both.

**Cron.** One job of each kind, a daily one (the reminders) and a sweep (the
session cleanup); the others of a kind differ in hour and work. Each statement
is a step. Time is days of a few hours; a process checks as often as it likes in
an hour and at least once, unless it is late, which is a fault and is recorded
in `troubled`, for the day it ends as for the one it began. A claim and an upsert
may also take effect and lose their replies.

**Reviews.** One employer. A review's content is its rating; the aggregate
columns are the set of reviews they were computed from, so that an aggregate
that is right by accident is not taken for one that is right. A recalculation
is two steps: under READ COMMITTED its subquery uses the snapshot of the
statement's start, and the row lock is taken after that.

**Import.** Upload, transaction and clean-up of the handler; then the attempts
of a worker, row by row, every statement able to fail, to lose its reply, to
meet the end of the ten minutes or the end of the process. An entity keeps the
job its fields come from. The worker's own statements are steps of their own
before and after the attempt (`Claim`, `Mark`), so that the process may also die
when the task is claimed and nothing is done, or when the file is gone and the
task not yet marked. Jobs do not share a worker in the model: each has at
most one attempt at a time, which `ExclusiveClaim` of `TaskQueue` justifies. So
much of the queue is repeated here, and `ImplementsRetryQueue` checks that it is
the queue the other modules rely on.

**Records.** All five tables are one function from ids to rows; `KindOf` and
`Parent` say which table a row is in and what its foreign key refers to. The
handlers differ in which columns they set, in the version and in the foreign
keys, and that is what the model keeps (`Editable`, `Supplied`, `Overwritten`,
`Created`, `Versioned`, `Delete`). A column of the model is a class of columns
that all statements treat alike; what a CSV row must give, may leave empty and
never has are three of them, because an import writes NULL over the last two
(`Refreshed`), and a list that is NULL is read, and so written back by a PATCH, as
`[]` (`Shown`). A PATCH is two steps, its SELECT (`Fetch`) and its
UPDATE (`Write`, `Miss`, `Duplicate`); every other statement is one. The SELECT
that assessments and opportunities add for the answer changes nothing. `want`
`taken` and `touched` are history: the value last given for a column, the
columns an import has cleared since, and whether another write came in
between.

**Deliverability.** One address, whose row comes (`Register`) and goes (`Purge`)
and is edited meanwhile. Mail tasks are sent by workers through
`sendIfDeliverable`, a `Check` and a `Send`; the farewell of a deleted account
(`Farewells`) skips the check. SES may `Publish` an event about a mail it has
accepted; SQS delivers it to a poller (`Receive`), again when its visibility
timeout ends (`Expire`), and gives it up to a dead-letter queue after
`MaxReceives` deliveries. The poller inserts a task for each delivery and
deletes the message (`Insert`, `Delete`), and either may fail or lose its reply.
The tasks of mails and events are rows of the queue, and the module composes
with it at the level of its promise: `Queue == INSTANCE RetryQueue`, which
`TaskQueue` implements. `Mark` is the UPDATE of `MarkEmailStatus`.

**Listings.** A visitor fetches page after page of one endpoint while the rows
change. `Endpoints` are the nine paged queries with their sort columns and
status filters, reduced to the traits that matter to a walk: can an UPDATE move
a row in the order or change what WHERE tests, does the ORDER BY end in a unique
column, do imports write the table, are dates looked at. `Fetch` is ORDER BY,
LIMIT, OFFSET and `CalculateMetadata`. `ShownStatus`, `Filter` and `CountedOpen` are
the CASE of the response, the WHERE of the listing and the count of the
dashboard, each as it is written.

## 3. Conventions

Actions carry the names of the code where there is one. A definition with the
comment "mutant" is a plausible bug: replacing the definition it belongs to by
it makes TLC find the property of `PROJECT.json` violated, which shows that the
property looks at that code. Faults are a CONSTANT set of kinds, so that a run
says which of them it allows. History variables are marked as such and no guard
reads them. `CHECK_DEADLOCK FALSE` stands where the instance really ends:
one-shot ids are used up, or the clock is at its horizon.

An exception in a property ("unless ...") is a history variable or a place in
the code where the exception is caused, never a condition on the outcome.

## 4. Runs

| Run | Instance | States | Shows |
|---|---|---|---|
| `queue` | 2 processes, 2 tasks (one nobody handles), 2 attempts, all disruptions | 209 000 | claims are exclusive, only interruptions strand a row, backoff is waited for, `RetryQueue` is implemented, by which attempts and effects agree; every row settles or was interrupted, and a signalled process comes down |
| `queue_stranded` | 1 process, 1 task, a signal | violation | a failure reported during shutdown is never recorded |
| `accounts_safety` | 2 requests, 2 row ids, 2 sessions, 2 tokens, all handlers | 691 000 | grants follow verification; password changes cut off all sessions but those of overlapping sign-ins; edits are neither lost nor land on an account deleted since they read it |
| `accounts_orphan` | 2 requests | violation | a session of a deleted user |
| `accounts_purge` | an administrator who has imported | violation | never purged |
| `limiter` | limit 2, window 2, 3 clients, 7 ticks | 1 800 | bursts and guesses are bounded; `FixedWindow` is implemented |
| `cron` | 2 processes, an admin, 2 days of 3 hours, sweeps in the first and the last hour, all faults | 2 161 000 | reminded once and not forgotten, no sweep missed, one sweep per hour and process |
| `reviews` | 1 review, 2 ratings, 2 administrators, 1 worker, the nightly job, all faults | 103 000 | what is public was moderated; the aggregates follow and converge |
| `import` | a file of 2 rows, one invalid, and its correction; 3 attempts; any 2 faults | 289 000 | the report is true, files go when they should, `RetryQueue` is implemented, the steps of an import are limited; every import ends and says so |
| `records` | 2 employers, an assessment, an opportunity, an application; 2 edits at a time of one part of the columns or the other, 4 writes | 823 000 | versions keep every write from being undone by a PATCH and refuse nothing else; an import clears what it has no value for; without versions only an overlap loses a write |
| `mail` | a mail, a farewell, an event, 1 poller, 2 workers, 2 deliveries, any 2 faults | 655 000 | no event is lost between SQS and its handler, suppressions have a cause, mails stop; every bounce and complaint takes effect or ends where an operator finds it |
| `listings` | 3 rows in 2 places of the order, pages of 2 rows (of 1 where there are no dates), 3 days, 2 changes during a walk, every endpoint | 872 000 | what a walk misses and repeats is bounded by the changes; the expressions of the status agree |

A run names no `TypeOK`: the types of every module with variables that a run
checks are proved, for every instance (section 5).

**Why the bounds are enough.** Two is the number of parties every hazard listed
needs: two workers for a claim, two requests for a stale row, two row ids for an
address that is registered anew. Two attempts show the first, the repeated and
the last one; imports have the code's three. Two days and three hours hold a target hour with an hour on either
side, a day's end, and a job on either side of it. Limit 2 and window 2 let a
burst straddle windows and three clients overshoot. The instance of `reviews`
has one review: a recalculation copies the set of approved reviews whole, so a
second review adds no new order of steps, and `AggregatesSound` is proved for
any number; what needs two recalculations, or two administrators, has them.
Two faults let
a lost reply meet a failing retry or a failing removal of the file (a retry
without its file fails of itself), and the theorems about imports hold for any
number. Four
writes are what it takes to create an employer and its opportunity or assessment
and to edit that twice; two employers make a slug clash. A PATCH gives the
columns of one of two sets (`Patches`), as every column it does not give is treated
alike, and reads nothing after the last write. One event
with two deliveries is what a duplicate needs; that two events may overtake each other is not in the run, and
`SuppressionHasCause` is proved for any number of them. The farewell is the mail that
does not ask, and two faults let an INSERT lose its reply and
its repetition fail; the proofs cover the other sizes. Three rows on pages of
one and two fill two or three pages, of which the last is full or not; two
changes let a row go and another come; three days are the day before, the day
and the day after the only date. The
bounds themselves are `MaxVersion` (edits of a row; the actions that raise a
version stop there), `Horizon`, `LastDay` and `LastHour`, `MaxQueued`,
`MaxFaults`, `MaxWrites`, `Patches`, `MaxChanges`, `NumRows` and `NumKeys`; every other number is the code's.

**Fairness.** The worker loop is weakly fair: Go schedules it, handlers return
(mails and imports have timeouts) and statements return. A claim that is due
does not fail each time, for the database is not out of reach for ever
(`SF ClaimCommit`). A shutdown that has
begun goes on, and a process that ended is started again by its supervisor.
Nothing obliges a request, a signal, a crash or a failure to happen. In
`Reviews` only the nightly job is fair: a night comes again and again
(`WF Compute`), and it does not fail on every one of them (`SF Write`). In
`Import` a worker polls for ever (`WF Work`). In
`Deliverability` pollers and workers go on, SQS expires what is not deleted, and
the faults are bounded. In `Accounts` the purge runs again
and again (`PurgeSpec`), which is all that `DeletedAreRemoved` needs and still
does not get.

## 5. Proofs

All are inductions over the steps: an invariant, one step per action, the
temporal conclusion by PTL. They hold for all values of the constants that
satisfy the modules' assumptions (distinct names for "nothing", positive
bounds). The only assumption that is not about a constant's range is
`PowerAssumption` of `TaskQueue`, a piece of arithmetic (`2^k` is a natural
number) that the provers have no theory of; TLC evaluates it.

| Module | Theorem | Argument |
|---|---|---|
| `TaskQueueProofs` | `TypeCorrect`, `ClaimIsExclusive`, `AttemptsAccounted` | `QueueInv` says that a worker with a row has it alone, that the row is `processing` while it is executed, and that effects never exceed attempts by more than the one in progress; exclusivity alone is not inductive, because a second claim is stopped by the status and not by the lock |
| | `OnlyInterruptionStrands` | a row is attended by a worker until an interruption is recorded |
| | `SettledRowsFinal`, `BackoffHolds` | a locked row is still pending and due, so a claim acts on the row it saw; `SettledForever` and `AttemptAccounting` are stated for the proofs alone: the run checks `RetryQueue`, in which a settled job has no step and an attempt one effect |
| | `Refinement` | every step is a step of `RetryQueue` or none |
| `AccountsProofs` | `TypeCorrect`, `GrantsFollow`, `ChangeCutsOff`, `NoGooglePassword` | `AccountsInv` relates the copies in flight to the rows: a copy with the row's version shows the row as it is, so an update that passes its version check writes back nothing stale; sessions, tokens and copies refer to rows that exist, and whoever sets a password works on an account that has one; a copy with an older password than the row has missed a change, and its session says so |
| | `VerifiedStays`, `EditsStay`, `EditsReachLiveAccounts` | the same invariant, for pairs of states; a copy that missed a deletion has an older version than the row |
| `RequestProofs`, the limiter | `BurstsBounded` | a call admitted before the window in force is older than its start, one admitted `Limit` calls earlier older than the window before it (`WindowsFollow`); the bound follows from a step, not from itself |
| | `TypeCorrect`, `GuessesBounded`, `FullHolds`, `Refinement` | as long as guesses are admitted the count is the number of guesses (`CountsGuesses`), and a window in force ends within its length; `GuessBound` alone is kept by neither a new window nor a full one |
| `RequestProofs`, the listings | `ListingsTyped`, `StatusRulesAgree` | a case for each place of the day before, between and after the two dates |
| | `MissesAreBounded`, `RepeatsAreBounded` | a page is what lies at its places of the order, so what a walk may still see is what has at least `Offset` rows ahead of it (`Beyond`). Of the rows beyond a place no more leave, and no more come, than rows of the listing have gone, come or moved (`BeyondShift`, a count of the rows ahead). `WalkInv` adds to the two bounds, which speak of the rows seen or missed so far, those that the rest of the walk will see or miss |
| `CronProofs` | `TypeCorrect`, `NobodyRemindedTwice` | a claimed day has one owner, and whom he still has to remind he has not reminded |
| | `AllAreReminded` | on a quiet day a check that gets past the job in its hour leaves a row, a row has a runner that serves it until everybody is reminded (`RowIsServed`), and a process is at that work in the job's hour only, unless it has overrun |
| | `SweepsNotMissed`, `SweptOncePerHour` | a recorded start was a sweep unless that day had trouble (`Recorded`); on a quiet day a check that has ended in a target hour has seen a start in that hour (`LookedAtSweep`); whoever started one finds it (`LooksFirst`) |
| `ReviewsProofs` | `TypeCorrect`, `ModerationSound`, `AggregatesSound` | a running recalculation has the present result, or a newer task is on its way, or a debt is recorded |
| `RecordsProofs` | `TypeCorrect`, `NothingIsReverted`, `ConflictsAreReal`, `RevertsOverlap` | `RecordsInv` says of a request between its two statements that nothing has touched its row, or that the version has grown, or that there is none; a row with the version that was read has not changed in an editable column (`VersionTells`). `RowInv` says of each row that a column shows what was last given, or nothing if it is `taken` |
| `DeliverabilityProofs` | `TypeCorrect`, `LateBounded` | a suppressed address stays so while its row is there (`LateInv`), and a worker past the check when it is suppressed cannot pass another |
| | `EventsKept` | `EventInv`: a poller about to delete a message has its task in the queue, which never forgets one (`QueueGrows`); the deletion alone does not show that |
| | `SuppressionHasCause` | `CauseInv`, for the events handled in any order |
| `ImportProofs` | `TypeCorrect` | a task that waits or runs has an attempt left, and a job before its upload has none of its traces |
| | `ReportSound` | up to its next row an attempt has counted, excused or refused every row; only its last step writes "completed", and every later attempt starts by overwriting that |
| | `CorrectionsHold` | an import that was complete at a later upload is `Spent`: over, about to end, or without a file to read, so none of its attempts reaches a row |
| | `EndsAreTold`, `FilesLive` | `JobEnd`, the file and the status at each place of an attempt and of its upload request |
| | `JobsAreQueued` | every step is a step of `RetryQueue` or none: an attempt is invisible to the queue until the worker marks it, and that a task in progress has an attempt left (`TriesLeft`) makes the mark a retry or the burial |
| | `BudgetsShrink` | an attempt has at most `Rows + 6` steps and each leaves one less; the mark of a failed attempt takes a whole attempt from what is left, by which it pays for the next |

The limiter and the listings share a proof module because both are small and
neither needs the other; their constants have different names.

Every invariant and every action property of a passing run is a theorem, and
so are the three refinements. Left to TLC are the five liveness properties of
passing runs (`EveryTaskSettles`, `ShutdownCompletes`, `RatingsConverge`,
`EveryImportEnds`, `EventTakesEffect`), which are out of the prover's reach
(fairness needs ENABLED). What they need besides fairness is
proved: `OnlyInterruptionStrands`, `AggregatesSound`, `BudgetsShrink` and
`EventsKept` say of tasks, aggregates, imports and events that they are on their
way until they have arrived. (`ShutdownCompletes` needs nothing of the kind.)

## 6. Where code and documents disagree

Each of the first three is a run that TLC ends with a counterexample.

1. `queue_stranded`: README.md:231 says that failed tasks are retried. A failure
   after `cancel()` cannot be recorded (worker.go:129), and no statement ever
   looks at a `processing` row again.
2. `accounts_orphan`: auth.go:190-192 wants no session of a deleted user; the
   row it decides on was read before the transaction.
3. `accounts_purge`: users.go:422-424 promises removal after 30 days;
   `import_job.user_id` is NOT NULL with ON DELETE SET NULL, so an administrator
   who has imported cannot be removed, and the one DELETE then removes nobody.

Seen while modelling, without a run of their own:

- import_processor.go:34-36 removes the file because "the job record retains all
  the info we need"; when the last statement, `MarkCompleted` (:128), fails, the
  retry finds no file and writes status `failed` and "download file" over the
  record of an import that has imported its rows.
- workers.go:194-198 says that the check of `email_status` blocks an address
  that bounced; `account_deleted` is sent without it. helpers.go:200 speaks of a
  suppression record that a bounce creates; `MarkEmailStatus` is an UPDATE and
  creates none, so an event handled while there is no row is forgotten, and an
  address that is purged and registered anew is active again.
- ses_events.go:97 says that repeated events are harmless, "same UPDATE same
  state"; a late duplicate of a bounce overwrites `complained` by `bounced`.
- The status of an opportunity is one rule as long as its deadline is not before
  it opens. A PATCH compares the two dates only if both are given
  (opportunities.go:185) and an import never does; such a row is listed as
  `closed` while it is shown as `upcoming`, and `open_or_upcoming` leaves it out.
  The empty string in a PATCH is a date before every other and clears the field.
- An import without a value for `is_active` makes a withdrawn listing active
  again; POST has no such column and PATCH does not write `employer_id`.
- `is_active` of a bookmark (data/bookmarks.go:148-156) is false on the day of
  the deadline, on which the opportunity is still open, and true when it is
  withdrawn.
- Employers are listed by name, which is not unique (employers.go:392-394):
  pages of equal names may repeat and miss rows of a table nobody changes
  (`tied` in `Listings`). app/assessments.go:209 limits `page_size` to 50, the code to
  100.
- README.md:227 reminds of deadlines "within 3 days"; the query takes
  those of exactly the third day from now. Soft-deleted users are reminded too.
- Migration 000018:13-15 lets reviews outlive their authors; the queries of the
  moderation pages scan `user_id` into a string and fail on such a row, so one
  pending review without an author hides all of them (`Listable` in `Reviews`).
- app/assessments.go:61 wants the "current version" for an update; the input has
  no version (data/assessments.go:46-53), and the one compared is read by the
  same request: an edit of a page that is out of date is accepted.
- data/opportunities.go:513-516 wants an import with `is_active=false` to
  withdraw a listing; a PATCH of another field that overlaps the import puts it
  back (`RevertNeedsOverlap` says that only an overlap does).
- app/employers.go:189 says that deleting an employer cascades; the foreign keys
  are ON DELETE RESTRICT, and as no route deletes assessments, an employer with
  one can never be deleted.
- An update of an assessment or opportunity that is deleted before the closing
  SELECT is answered with 404, although it was made; a removed application
  answers its update with 500 (data/applications.go:181-185).
- auth.go:20 says that a registration assigns default permissions; it grants
  none, they come with the activation of the address
  (`GrantsFollowVerification`).
- auth.go:838 tells the user "You've been signed out of all other devices". A
  sign-in with the old password that has read the row before the change or
  reset (auth.go:164-175) and inserts its session (:212) after the
  change's DELETE (:815, :710) stays signed in, until the next change
  (`overtaken` in `Accounts`).
- data/employers.go:469-471 wants an import to refresh the editable fields
  "without losing manually-managed state" and lists what is protected
  (:473-478). A CSV row has no culture, offices or social links
  (import_processor.go:133-162), and leaves empty cells nil; `Upsert` writes them
  all (:489-499), so every import clears what an administrator has put there by
  hand (`taken` in `Records`).
- `CreateEmployerInput` has `is_verified` (data/employers.go:54), but the INSERT
  does not write it (:138-160): an employer that is posted as verified is not.
- cron.go:198 wants to fire "once per target hour": two processes may both look
  before either has recorded its start, and both sweep. `SweepOncePerHour`
  is about one process. If the reply to the upsert is lost, the hour counts as
  swept and is not.
- Two concurrent forgot-password requests leave two live tokens, against "one
  token per user" (migration 000007:23, :35; tokens.go:103).
- Two concurrent password changes each keep their own session and delete the
  other's (session.go:87-88). If the confirmation mail cannot be queued, the
  change is rolled back (auth.go:819-826).
- A sign-in restores an account as long as no purge has run, however long ago
  it was deleted (auth.go:195; auth.go:129 speaks of the grace period).
- README.md:231 gives a backoff of 1, 5 and 30 minutes; the code waits 2 and 4.
  README.md:220 gives five workers; a process has one. README.md:227-228 cleans
  sessions up hourly; the code does so every six hours.
- admin.go:180-181 offers the manual run for recovery, but a day whose job has
  failed is refused as already run.
- `Moderate` takes the review's id alone: an edit between reading and decision
  is published unread (`raced` in `Reviews`). There is no unique constraint on
  reviews, so the documented 409 never occurs.
- Retry-After is cut down to whole seconds (errors.go:88): a client that waits
  that long meets the same window.
- The opportunities import demands a column `employer_id` it never reads, and
  reads `employer_slug`, which it does not demand (import_processor.go:79, :165).
  After a retry `rows_failed` may be negative (import_jobs.go:107-110).

## 7. What is not modelled

- Contents: mails, pages, validation messages, JSON, images. None of the
  properties is about them.
- The OAuth exchange, bcrypt, TLS, SMTP and the S3 protocol, except for their
  outcomes: success, failure, or an effect whose reply is lost.
- Contexts of requests that are cancelled by clients appear as failures of
  statements, not as a component.
- Pool sizes: a handler that holds one connection while it waits for another
  (cron.go:364) is listed under the hazards, without a property.
- Reads that change nothing and are not paged (single rows, the figures of the
  dashboard but for the open opportunities, the health check).
- What a search matches, and the states a timeline derives from dates
  (`data/timeline.go`): formats of single answers.
- Retention of old `task_queue` and `cron_run` rows: the code has none.

## 8. Plan

Done, in this order: the queue, on which all else rests; accounts; the limiter;
cron; reviews; imports; the catalogue and user content (`Records`); mails and
their events over the queue's promise (`Deliverability`); the paged reads
(`Listings`); the types and every safety property of all of them as theorems,
and imports as an implementation of `RetryQueue`.

Left:

1. A composition of `Accounts` and `RetryQueue` for the mails that a handler
   queues in its transaction: a committed change has its mail, a rolled-back one
   has none.
2. Two replicas of the limiter: each process counts for itself, so that a key's
   limit holds per process.
