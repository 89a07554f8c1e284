------------------------------- MODULE Import --------------------------------
(***************************************************************************)
(* Bulk imports: startImportHandler puts a CSV file into the object        *)
(* storage and inserts the import_job row with its task; processImport     *)
(* runs in a worker, imports every row in a transaction of its own, writes *)
(* the outcome into import_job and removes the file.                       *)
(*                                                                         *)
(* Of the queue and its workers a task sees what RetryQueue says, and      *)
(* ImplementsRetryQueue checks that it is so here: there is one attempt at *)
(* a time, so its state is kept per job, and a task is stranded when its   *)
(* worker is cut off.  Every file holds the rows 1..Rows, each for the     *)
(* entity (an employer or an opportunity with a certain slug) of that      *)
(* number; which job an entity's fields come from is all that is kept.     *)
(***************************************************************************)
EXTENDS Naturals

CONSTANTS Jobs,         \* uploads
          Rows,         \* data rows of a file
          Invalid,      \* pairs <<j, n>>: row n of j is refused by its processor
          MaxAttempts,  \* column max_attempts of task_queue
          Faults,       \* which of FaultKinds may happen
          MaxFaults     \* bound: faults in one behaviour

\* A statement fails; it takes effect and its reply is lost; a call of the
\* object storage fails; the ten minutes of processImport are over; the
\* process dies.
FaultKinds == {"db", "reply", "storage", "timeout", "crash"}

NoJob == "nothing"

ASSUME ImportAssumption ==
    /\ Rows \in Nat \ {0}
    /\ MaxAttempts \in Nat \ {0}
    /\ MaxFaults \in Nat
    /\ Invalid \subseteq Jobs \X (1..Rows)
    /\ Faults \subseteq FaultKinds
    /\ NoJob \notin Jobs

VARIABLES
    malformed,  \* the jobs whose file is no CSV, or lacks rows or columns
    handler,    \* handler[j]: where the upload request is
    stored,     \* the jobs whose file is in the object storage
    status,     \* status[j]: import_job.status; "absent" before the INSERT
    total,      \* total[j]: import_job.rows_total; 0 while it is NULL
    reported,   \* reported[j]: the rows that rows_imported and row_errors
                \* give as imported
    at,         \* at[j]: where the task, and an attempt of it, is
    tries,      \* tries[j]: failed attempts
    row,        \* row[j]: next row of the attempt
    good,       \* good[j]: rows the attempt has counted as imported
    erred,      \* jobs whose attempt ends with an error
    expired,    \* jobs whose attempt has used up its ten minutes
    entity,     \* entity[n]: the job whose row n was upserted last
    faults,     \* faults so far
    imported,   \* history: imported[j]: rows of j that were ever upserted
    troubled,   \* history: troubled[j]: rows the attempt failed to import, or
                \* to count, though they are valid
    after,      \* history: pairs <<k, j>>: j was completed when k was uploaded
    excused     \* history: excused[j]: what has gone wrong with job j

upload  == <<handler, stored>>
record  == <<status, total, reported>>
attempt == <<row, good, erred, expired, troubled>>
outside == <<entity, imported>>
vars == <<malformed, upload, record, at, tries, attempt, outside, faults, after, excused>>

Handlers == {"start", "uploaded", "clean", "over"}
Statuses == {"absent", "pending", "processing", "completed", "failed"}
Running  == {"claimed", "download", "rows", "failing", "delete", "ended"}
Places   == {"absent", "waiting", "done", "dead", "stranded"} \union Running
\* The commit's reply was lost; an attempt left the file where it was; an
\* UPDATE of import_job failed.
Excuses  == {"reply", "spared", "untold"}

Settled(j) == at[j] \in {"done", "dead"}

Init == /\ malformed \in SUBSET Jobs
        /\ handler = [j \in Jobs |-> "start"]
        /\ stored = {}
        /\ status = [j \in Jobs |-> "absent"]
        /\ total = [j \in Jobs |-> 0]
        /\ reported = [j \in Jobs |-> {}]
        /\ at = [j \in Jobs |-> "absent"]
        /\ tries = [j \in Jobs |-> 0]
        /\ row = [j \in Jobs |-> 1]
        /\ good = [j \in Jobs |-> {}]
        /\ erred = {}
        /\ expired = {}
        /\ entity = [n \in 1..Rows |-> NoJob]
        /\ faults = 0
        /\ imported = [j \in Jobs |-> {}]
        /\ troubled = [j \in Jobs |-> {}]
        /\ after = {}
        /\ excused = [j \in Jobs |-> {}]

Fault(kind) == /\ kind \in Faults /\ faults < MaxFaults
               /\ faults' = faults + 1

\* A statement under the attempt's context fails, at once when that is over.
Fails(j) == (j \in expired /\ UNCHANGED faults) \/ Fault("db")
Works(j) == j \notin expired /\ UNCHANGED faults

Excuse(j, why) == excused' = [excused EXCEPT ![j] = excused[j] \union {why}]

-----------------------------------------------------------------------------
(* startImportHandler                                                      *)

Upload(j) ==
    /\ handler[j] = "start"
    /\ handler' = [handler EXCEPT ![j] = "uploaded"]
    /\ stored' = stored \union {j}
    /\ after' = after \union {<<j, k>> : k \in {x \in Jobs : status[x] = "completed"}}
    /\ UNCHANGED <<malformed, record, at, tries, attempt, outside, faults, excused>>

\* The request is answered with status 500, whether the storage has kept the
\* object or not.
UploadFails(j) ==
    /\ handler[j] = "start" /\ Fault("storage")
    /\ handler' = [handler EXCEPT ![j] = "over"]
    /\ stored' \in {stored, stored \union {j}}
    /\ UNCHANGED <<malformed, record, at, tries, attempt, outside, after, excused>>

\* The transaction inserts the import_job row and the task.
Insert(j) == /\ status' = [status EXCEPT ![j] = "pending"]
             /\ at' = [at EXCEPT ![j] = "waiting"]

\* Mutant: the removal is deferred instead of bound to the error.
CleanedAnyway(j) == "clean"

AfterCommit(j) == "over"

Commit(j) ==
    /\ handler[j] = "uploaded"
    /\ handler' = [handler EXCEPT ![j] = AfterCommit(j)]
    /\ Insert(j)
    /\ UNCHANGED <<malformed, stored, total, reported, tries, attempt, outside, faults, after, excused>>

\* The transaction fails, or it commits and its reply is lost: the handler
\* removes the file in either case.
CommitFails(j) ==
    /\ handler[j] = "uploaded"
    /\ handler' = [handler EXCEPT ![j] = "clean"]
    /\ \/ Fault("db") /\ UNCHANGED <<status, at, excused>>
       \/ Fault("reply") /\ Insert(j) /\ Excuse(j, "reply")
    /\ UNCHANGED <<malformed, stored, total, reported, tries, attempt, outside, after>>

Clean(j) ==
    /\ handler[j] = "clean"
    /\ handler' = [handler EXCEPT ![j] = "over"]
    /\ \/ stored' = stored \ {j} /\ UNCHANGED <<faults, excused>>
       \/ Fault("storage") /\ Excuse(j, "spared") /\ UNCHANGED stored
    /\ UNCHANGED <<malformed, record, at, tries, attempt, outside, after>>

HandlerDies(j) ==
    /\ handler[j] \in {"uploaded", "clean"} /\ Fault("crash")
    /\ handler' = [handler EXCEPT ![j] = "over"]
    /\ Excuse(j, "spared")
    /\ UNCHANGED <<malformed, stored, record, at, tries, attempt, outside, after>>

-----------------------------------------------------------------------------
(* The worker and processImport: the start and the end of an attempt       *)

\* Mutant: a status nobody looks for.
AfterErrorParked(j) == "parked"

\* Mutant: off by one.
AfterErrorLate(j) == IF tries[j] < MaxAttempts THEN "waiting" ELSE "dead"

\* markFailed of the worker
AfterError(j) == IF tries[j] + 1 < MaxAttempts THEN "waiting" ELSE "dead"

\* Mutant: a failure without "attempts = attempts + 1".
CountForgotten(j) == UNCHANGED tries

CountFailure(j) == tries' = [tries EXCEPT ![j] = tries[j] + 1]

GoTo(j, place) == at' = [at EXCEPT ![j] = place]

\* claimNext of the worker; when only its reply is lost, nobody has the task.
Claim(j) ==
    /\ at[j] = "waiting"
    /\ \/ GoTo(j, "claimed") /\ UNCHANGED faults
       \/ GoTo(j, "stranded") /\ Fault("reply")
    /\ UNCHANGED <<malformed, upload, record, tries, attempt, outside, after, excused>>

\* GetByID and MarkProcessing, which overwrites any status.
Begin(j) ==
    /\ at[j] = "claimed" /\ Works(j)
    /\ status' = [status EXCEPT ![j] = "processing"]
    /\ row' = [row EXCEPT ![j] = 1]
    /\ good' = [good EXCEPT ![j] = {}]
    /\ troubled' = [troubled EXCEPT ![j] = {}]
    /\ GoTo(j, "download")
    /\ UNCHANGED <<malformed, upload, total, reported, tries, erred, expired, outside, after, excused>>

\* Either statement fails: the attempt is over before the removal of the file
\* is deferred.
BeginFails(j) ==
    /\ at[j] = "claimed"
    /\ \/ Fails(j) /\ UNCHANGED status
       \/ /\ j \notin expired /\ Fault("reply")
          /\ status' = [status EXCEPT ![j] = "processing"]
    /\ excused' = [excused EXCEPT ![j] = excused[j] \union {"spared", "untold"}]
    /\ erred' = erred \union {j}
    /\ expired' = expired \ {j}
    /\ GoTo(j, "ended")
    /\ UNCHANGED <<malformed, upload, total, reported, tries, row, good, troubled, outside, after>>

Expire(j) ==
    /\ at[j] \in Running \ {"delete", "ended"} /\ j \notin expired /\ Fault("timeout")
    /\ expired' = expired \union {j}
    /\ UNCHANGED <<malformed, upload, record, at, tries, row, good, erred, troubled, outside, after, excused>>

\* Mutant: the file is kept for the retry.
RemovedOnSuccess(j) == IF j \in erred THEN {} ELSE {j}

\* The deferred storage.Delete does not ask how the attempt has ended.
Removed(j) == {j}

\* storage.Delete has a context of its own, and its error is logged.
End(j) ==
    /\ at[j] = "delete"
    /\ \/ stored' = stored \ Removed(j) /\ UNCHANGED <<faults, excused>>
       \/ Fault("storage") /\ Excuse(j, "spared") /\ UNCHANGED stored
    /\ expired' = expired \ {j}
    /\ GoTo(j, "ended")
    /\ UNCHANGED <<malformed, handler, record, tries, row, good, erred, troubled, outside, after>>

\* markFailed or markCompleted of the worker; when the statement fails, or
\* only its reply is lost, the error is logged and the row left as it is.
Mark(j) ==
    /\ at[j] = "ended"
    /\ \/ /\ UNCHANGED faults \/ Fault("reply")
          /\ \/ j \in erred /\ GoTo(j, AfterError(j)) /\ CountFailure(j)
             \/ j \notin erred /\ GoTo(j, "done") /\ UNCHANGED tries
       \/ Fault("db") /\ GoTo(j, "stranded") /\ UNCHANGED tries
    /\ erred' = erred \ {j}
    /\ UNCHANGED <<malformed, upload, record, row, good, expired, troubled, outside, after, excused>>

\* The process dies.
Die(j) ==
    /\ at[j] \in Running /\ Fault("crash")
    /\ GoTo(j, "stranded")
    /\ erred' = erred \ {j}
    /\ expired' = expired \ {j}
    /\ UNCHANGED <<malformed, upload, record, tries, row, good, troubled, outside, after, excused>>

-----------------------------------------------------------------------------
(* processImport: the file and its rows                                    *)

\* Download and the checks on the file as a whole.
Download(j) ==
    /\ at[j] = "download"
    /\ \/ /\ j \in stored \ (malformed \union expired)
          /\ GoTo(j, "rows") /\ UNCHANGED <<faults, erred>>
       \/ /\ \/ (j \notin stored \/ j \in malformed \union expired) /\ UNCHANGED faults
             \/ Fault("storage")
          /\ GoTo(j, "failing")
          /\ erred' = erred \union {j}
    /\ UNCHANGED <<malformed, upload, record, tries, row, good, expired, troubled, outside, after, excused>>

\* Mutant: only the message is written.
StatusUntouched(j) == status[j]

FailedStatus(j) == "failed"

\* MarkFailed: rows_total is 0, or the number of rows where only a column is
\* missing; rows_imported is not touched, and an error is ignored.
Fail(j) ==
    /\ at[j] = "failing"
    /\ \/ /\ Works(j)
          /\ status' = [status EXCEPT ![j] = FailedStatus(j)]
          /\ \E t \in (IF j \in malformed /\ j \in stored THEN {0, Rows} ELSE {0}) :
                total' = [total EXCEPT ![j] = t]
          /\ UNCHANGED excused
       \/ /\ Fails(j) /\ Excuse(j, "untold")
          /\ UNCHANGED <<status, total>>
    /\ GoTo(j, "delete")
    /\ UNCHANGED <<malformed, upload, reported, tries, attempt, outside, after>>

InRows(j) == at[j] = "rows" /\ row[j] <= Rows

Upsert(j) == /\ entity' = [entity EXCEPT ![row[j]] = j]
             /\ imported' = [imported EXCEPT ![j] = imported[j] \union {row[j]}]

\* Mutant: a row is counted before its error is looked at.
CountedAnyway(j, ok) == good[j] \union {row[j]}

Counted(j, ok) == IF ok THEN good[j] \union {row[j]} ELSE good[j]

Import1(j) ==
    /\ InRows(j) /\ Works(j)
    /\ <<j, row[j]>> \notin Invalid
    /\ Upsert(j)
    /\ good' = [good EXCEPT ![j] = Counted(j, TRUE)]
    /\ row' = [row EXCEPT ![j] = row[j] + 1]
    /\ UNCHANGED <<malformed, upload, record, at, tries, erred, expired, troubled, after, excused>>

\* The row's transaction is rolled back, or commits and its reply is lost.
\* Its error goes into the report, and the next row is tried.
RowFails(j) ==
    /\ InRows(j)
    /\ \/ /\ (<<j, row[j]>> \in Invalid /\ UNCHANGED faults) \/ Fails(j)
          /\ UNCHANGED outside
       \/ <<j, row[j]>> \notin Invalid /\ j \notin expired /\ Fault("reply") /\ Upsert(j)
    /\ good' = [good EXCEPT ![j] = Counted(j, FALSE)]
    /\ troubled' = IF <<j, row[j]>> \in Invalid THEN troubled
                   ELSE [troubled EXCEPT ![j] = troubled[j] \union {row[j]}]
    /\ row' = [row EXCEPT ![j] = row[j] + 1]
    /\ UNCHANGED <<malformed, upload, record, at, tries, erred, expired, after, excused>>

Completed(j) ==
    /\ status' = [status EXCEPT ![j] = "completed"]
    /\ total' = [total EXCEPT ![j] = Rows]
    /\ reported' = [reported EXCEPT ![j] = good[j]]

\* MarkCompleted
Complete(j) ==
    /\ at[j] = "rows" /\ row[j] = Rows + 1
    /\ \/ Works(j) /\ Completed(j) /\ UNCHANGED <<erred, excused>>
       \/ /\ Fails(j) /\ UNCHANGED record
          /\ erred' = erred \union {j} /\ Excuse(j, "untold")
       \/ /\ j \notin expired /\ Fault("reply") /\ Completed(j)
          /\ erred' = erred \union {j} /\ UNCHANGED excused
    /\ GoTo(j, "delete")
    /\ UNCHANGED <<malformed, upload, tries, row, good, expired, troubled, outside, after>>

-----------------------------------------------------------------------------
Handle(j) == Upload(j) \/ UploadFails(j) \/ Commit(j) \/ CommitFails(j) \/ Clean(j) \/ HandlerDies(j)

Work(j) == \/ Claim(j) \/ Begin(j) \/ BeginFails(j) \/ Download(j) \/ Fail(j)
           \/ Import1(j) \/ RowFails(j) \/ Complete(j) \/ End(j) \/ Mark(j)

Next == \E j \in Jobs : Handle(j) \/ Work(j) \/ Expire(j) \/ Die(j)

Spec == Init /\ [][Next]_vars

\* The workers poll for ever and a handler runs to its end.
FairSpec == Spec /\ \A j \in Jobs : WF_vars(Work(j))

-----------------------------------------------------------------------------
TypeOK ==
    /\ malformed \subseteq Jobs
    /\ handler \in [Jobs -> Handlers]
    /\ stored \subseteq Jobs
    /\ status \in [Jobs -> Statuses]
    /\ total \in [Jobs -> 0..Rows]
    /\ reported \in [Jobs -> SUBSET (1..Rows)]
    /\ at \in [Jobs -> Places]
    /\ tries \in [Jobs -> 0..MaxAttempts]
    /\ row \in [Jobs -> 1..(Rows + 1)]
    /\ good \in [Jobs -> SUBSET (1..Rows)]
    /\ erred \subseteq Jobs /\ expired \subseteq Jobs
    /\ entity \in [1..Rows -> Jobs \union {NoJob}]
    /\ faults \in 0..MaxFaults
    /\ imported \in [Jobs -> SUBSET (1..Rows)]
    /\ troubled \in [Jobs -> SUBSET (1..Rows)]
    /\ after \subseteq Jobs \X Jobs
    /\ excused \in [Jobs -> SUBSET Excuses]

\* The report of a completed import is true ("valid rows persist regardless of
\* failures elsewhere"): the rows it counts as imported were, and every valid
\* row is among them but those whose transaction or its reply failed.
ReportIsTrue ==
    \A j \in Jobs : status[j] = "completed" =>
        /\ reported[j] \subseteq imported[j]
        /\ total[j] = Rows
        /\ \A n \in 1..Rows : n \in reported[j] \/ <<j, n>> \in Invalid \/ n \in troubled[j]

\* "Re-uploading a corrected CSV should refresh editable fields"
\* (data/employers.go:471): when a corrected file is uploaded after an import
\* has been reported completed, no retry of that import puts the old fields
\* back over the corrected ones, unless the file could not be removed, or an
\* attempt failed before its removal was deferred.
CorrectionHolds ==
    \A j, k \in Jobs, n \in 1..Rows :
        <<k, j>> \in after /\ n \in imported[k] /\ entity[n] = j =>
            "spared" \in excused[j]

\* The file is there until the first attempt reads it, unless the handler's
\* commit was misreported; and it is gone when the task is done or dead, unless
\* the storage or an early statement failed ("Always clean up the uploaded file
\* ... success or failure", import_processor.go:34).
FileLifetime ==
    \A j \in Jobs :
        /\ at[j] \in {"waiting", "claimed", "download"} /\ tries[j] = 0 =>
              j \in stored \/ "reply" \in excused[j]
        /\ Settled(j) /\ j \in stored => "spared" \in excused[j]

\* A settled import tells its end to the administrator, unless the statement
\* that should have told it failed.
EndIsTold ==
    \A j \in Jobs : Settled(j) => \/ status[j] \in {"completed", "failed"}
                                  \/ "untold" \in excused[j]

\* A job takes the steps of the abstract queue, one attempt at a time and no
\* more than MaxAttempts, whatever statement fails and wherever the process
\* dies.  What an attempt does outside is not a Send, which is at most once
\* per attempt: an attempt upserts each of its rows.
Stage == [place \in Places |-> IF place = "absent" THEN "none"
                               ELSE IF place \in Running \union {"stranded"} THEN "running"
                               ELSE place]

Abstract == INSTANCE RetryQueue WITH
                Tasks <- Jobs,
                stage <- [j \in Jobs |-> Stage[at[j]]],
                sends <- [j \in Jobs |-> 0]

ImplementsRetryQueue == Abstract!Spec

\* What an import can still cost its workers: an attempt takes Rows + 6 steps
\* (claim, begin, download, the rows, complete, delete, mark), fewer when it
\* fails early.
StepsOfAttempt == Rows + 6

StepsLeft(j) == CASE at[j] = "waiting"  -> Rows + 6
                  [] at[j] = "claimed"  -> Rows + 5
                  [] at[j] = "download" -> Rows + 4
                  [] at[j] = "rows"     -> Rows + 4 - row[j]
                  [] at[j] = "failing"  -> 3
                  [] at[j] = "delete"   -> 2
                  [] at[j] = "ended"    -> 1
                  [] OTHER              -> 0

Budget(j) == (MaxAttempts - tries[j]) * StepsOfAttempt + StepsLeft(j)

\* A queued import never runs for ever, whatever fails and whichever of its
\* retries finds no file: each step of a worker on it uses up a part of a
\* budget that the row count and max_attempts fix, and nothing else gives any
\* of it back.  This is what EveryImportEnds rests on besides fairness.
BudgetShrinks ==
    [][\A j \in Jobs : \/ at[j] = "absent"
                      \/ UNCHANGED <<at[j], tries[j], row[j]>>
                      \/ Budget(j)' \in 0..(Budget(j) - 1)]_vars

\* Every queued import comes to an end, if only that of its worker.
EveryImportEnds ==
    \A j \in Jobs : at[j] = "waiting" ~> Settled(j) \/ at[j] = "stranded"
=============================================================================
