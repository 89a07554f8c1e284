---------------------------- MODULE ImportProofs -----------------------------
(* Theorems about imports, for any number of uploads and rows, any limit of *)
(* attempts, and any number of faults of every kind.                        *)
EXTENDS Import, Integers, TLAPS

LEMMA InitTypes == Init => TypeOK
<1> SUFFICES ASSUME Init PROVE TypeOK
  OBVIOUS
<1>1. /\ total \in [Jobs -> 0..Rows] /\ tries \in [Jobs -> 0..MaxAttempts]
      /\ row \in [Jobs -> 1..(Rows + 1)] /\ faults \in 0..MaxFaults
  BY ImportAssumption DEF Init
<1>2. /\ handler \in [Jobs -> Handlers] /\ status \in [Jobs -> Statuses]
      /\ at \in [Jobs -> Places] /\ malformed \subseteq Jobs
  BY DEF Init, Handlers, Statuses, Places
<1>3. /\ reported \in [Jobs -> SUBSET (1..Rows)] /\ good \in [Jobs -> SUBSET (1..Rows)]
      /\ imported \in [Jobs -> SUBSET (1..Rows)] /\ troubled \in [Jobs -> SUBSET (1..Rows)]
      /\ excused \in [Jobs -> SUBSET Excuses] /\ entity \in [1..Rows -> Jobs \union {NoJob}]
  BY DEF Init
<1> QED
  BY <1>1, <1>2, <1>3 DEF Init, TypeOK

(* The proof of a step takes the counters and the other variables apart: the *)
(* former are arithmetic, the latter sets and functions.                     *)

\* An attempt that is still to be made, or under way, has one left to fail.
TriesLeft == \A j \in Jobs : at[j] \in Running \union {"absent", "waiting"} => tries[j] < MaxAttempts

Counters == /\ faults \in 0..MaxFaults
            /\ tries \in [Jobs -> 0..MaxAttempts]
            /\ row \in [Jobs -> 1..(Rows + 1)]
            /\ TriesLeft

Shapes ==
    /\ malformed \subseteq Jobs
    /\ handler \in [Jobs -> Handlers]
    /\ stored \subseteq Jobs
    /\ status \in [Jobs -> Statuses]
    /\ total \in [Jobs -> 0..Rows]
    /\ reported \in [Jobs -> SUBSET (1..Rows)]
    /\ at \in [Jobs -> Places]
    /\ good \in [Jobs -> SUBSET (1..Rows)]
    /\ erred \subseteq Jobs /\ expired \subseteq Jobs
    /\ entity \in [1..Rows -> Jobs \union {NoJob}]
    /\ imported \in [Jobs -> SUBSET (1..Rows)]
    /\ troubled \in [Jobs -> SUBSET (1..Rows)]
    /\ after \subseteq Jobs \X Jobs
    /\ excused \in [Jobs -> SUBSET Excuses]

\* Nothing has happened to a job whose request has not committed yet.
Fresh == \A j \in Jobs : handler[j] \in {"start", "uploaded"} =>
            at[j] = "absent" /\ status[j] = "absent" /\ imported[j] = {}

Typed == Shapes /\ Counters /\ Fresh

LEMMA ExcusedStep == Typed /\ [Next]_vars => excused' \in [Jobs -> SUBSET Excuses]
<1> SUFFICES ASSUME Typed, [Next]_vars PROVE excused' \in [Jobs -> SUBSET Excuses]
  OBVIOUS
<1>1. ASSUME NEW j \in Jobs, NEW why \in Excuses, Excuse(j, why)
      PROVE  excused' \in [Jobs -> SUBSET Excuses]
  BY <1>1 DEF Typed, Shapes, Excuse
<1>2. ASSUME NEW j \in Jobs, BeginFails(j) PROVE excused' \in [Jobs -> SUBSET Excuses]
  BY <1>2 DEF Typed, Shapes, BeginFails, Excuses
<1>3. CASE UNCHANGED excused
  BY <1>3 DEF Typed, Shapes
<1>4. {"reply", "spared", "untold"} \subseteq Excuses
  BY DEF Excuses
<1> QED
  BY <1>1, <1>2, <1>3, <1>4
  DEF Next, Handle, Work, vars, Upload, UploadFails, Commit, CommitFails, Clean, HandlerDies, Begin,
      Expire, Die, Download, Fail, Import1, RowFails, Complete, End, Claim, Mark

LEMMA ShapesStep == Typed /\ [Next]_vars => Shapes'
<1> SUFFICES ASSUME Typed, [Next]_vars PROVE Shapes'
  OBVIOUS
<1>e. excused' \in [Jobs -> SUBSET Excuses]
  BY ExcusedStep
<1>0. Rows \in 0..Rows /\ 0 \in 0..Rows /\ \A j \in Jobs : row[j] <= Rows => row[j] \in 1..Rows
  BY ImportAssumption DEF Typed, Counters
<1> USE <1>0, <1>e
    DEF Typed, Shapes, Handlers, Statuses, Places, Running, Excuses,
        upload, record, attempt, outside, GoTo
<1>1. ASSUME NEW j \in Jobs, Upload(j) PROVE Shapes'
  BY <1>1 DEF Upload
<1>2. ASSUME NEW j \in Jobs, UploadFails(j) PROVE Shapes'
  BY <1>2 DEF UploadFails
<1>3. ASSUME NEW j \in Jobs, Commit(j) PROVE Shapes'
  BY <1>3 DEF Commit, AfterCommit, Insert
<1>4. ASSUME NEW j \in Jobs, CommitFails(j) PROVE Shapes'
  <2>1. status' \in [Jobs -> Statuses]
    BY <1>4 DEF CommitFails, Insert
  <2>2. at' \in [Jobs -> Places]
    BY <1>4 DEF CommitFails, Insert
  <2> QED
    BY <1>4, <2>1, <2>2 DEF CommitFails
<1>5. ASSUME NEW j \in Jobs, Clean(j) PROVE Shapes'
  BY <1>5 DEF Clean
<1>6. ASSUME NEW j \in Jobs, HandlerDies(j) PROVE Shapes'
  BY <1>6 DEF HandlerDies
<1>7. ASSUME NEW j \in Jobs, Begin(j) PROVE Shapes'
  BY <1>7 DEF Begin
<1>8. ASSUME NEW j \in Jobs, BeginFails(j) PROVE Shapes'
  BY <1>8 DEF BeginFails, AfterError
<1>9. ASSUME NEW j \in Jobs, Expire(j) PROVE Shapes'
  BY <1>9 DEF Expire
<1>10. ASSUME NEW j \in Jobs, Die(j) PROVE Shapes'
  BY <1>10 DEF Die
<1>11. ASSUME NEW j \in Jobs, Download(j) PROVE Shapes'
  BY <1>11 DEF Download
<1>12. ASSUME NEW j \in Jobs, Fail(j) PROVE Shapes'
  <2>1. status' \in [Jobs -> Statuses]
    BY <1>12 DEF Fail, Works, Fails, FailedStatus
  <2>2. total' \in [Jobs -> 0..Rows]
    <3>1. UNCHANGED total \/ \E t \in 0..Rows : total' = [total EXCEPT ![j] = t]
      BY <1>12 DEF Fail
    <3> QED
      BY <3>1
  <2>3. at' \in [Jobs -> Places]
    BY <1>12 DEF Fail, Works, Fails, FailedStatus
  <2> QED
    BY <1>12, <2>1, <2>2, <2>3 DEF Fail
<1>13. ASSUME NEW j \in Jobs, Import1(j) PROVE Shapes'
  BY <1>13 DEF Import1, InRows, Works, Upsert, Counted
<1>14. ASSUME NEW j \in Jobs, RowFails(j) PROVE Shapes'
  <2>0. row[j] \in 1..Rows /\ (UNCHANGED outside \/ Upsert(j))
    BY <1>14 DEF RowFails, InRows
  <2>1. entity' \in [1..Rows -> Jobs \union {NoJob}]
    BY <2>0 DEF Upsert
  <2>2. imported' \in [Jobs -> SUBSET (1..Rows)]
    <3>1. imported[j] \union {row[j]} \in SUBSET (1..Rows)
      BY <2>0
    <3> QED
      BY <2>0, <3>1 DEF Upsert
  <2>3. good' \in [Jobs -> SUBSET (1..Rows)]
    BY <1>14 DEF RowFails, InRows, Fails, Upsert, Counted
  <2>4. troubled' \in [Jobs -> SUBSET (1..Rows)]
    BY <1>14 DEF RowFails, InRows, Fails, Upsert, Counted
  <2> QED
    BY <1>14, <2>1, <2>2, <2>3, <2>4 DEF RowFails
<1>15. ASSUME NEW j \in Jobs, Complete(j) PROVE Shapes'
  <2>1. status' \in [Jobs -> Statuses]
    BY <1>15 DEF Complete, Works, Fails, Completed
  <2>2. total' \in [Jobs -> 0..Rows]
    BY <1>15 DEF Complete, Works, Fails, Completed
  <2>3. reported' \in [Jobs -> SUBSET (1..Rows)]
    BY <1>15 DEF Complete, Works, Fails, Completed
  <2>4. erred' \subseteq Jobs
    BY <1>15 DEF Complete, Works, Fails, Completed
  <2>5. at' \in [Jobs -> Places]
    BY <1>15 DEF Complete, Works, Fails, Completed
  <2> QED
    BY <1>15, <2>1, <2>2, <2>3, <2>4, <2>5 DEF Complete
<1>16. ASSUME NEW j \in Jobs, End(j) PROVE Shapes'
  <2>1. stored' \subseteq Jobs
    BY <1>16 DEF End, Removed, AfterError
  <2>2. at' \in [Jobs -> Places]
    <3>1. \E p \in Places : at' = [at EXCEPT ![j] = p]
      BY <1>16 DEF End, AfterError
    <3> QED
      BY <3>1
  <2>3. erred' \subseteq Jobs
    BY <1>16 DEF End, Removed, AfterError
  <2>4. expired' \subseteq Jobs
    BY <1>16 DEF End, Removed, AfterError
  <2> QED
    BY <1>16, <2>1, <2>2, <2>3, <2>4 DEF End
<1>18. ASSUME NEW j \in Jobs, Claim(j) PROVE Shapes'
  BY <1>18 DEF Claim
<1>19. ASSUME NEW j \in Jobs, Mark(j) PROVE Shapes'
  BY <1>19 DEF Mark, CountFailure, AfterError
<1>17. CASE UNCHANGED vars
  BY <1>17 DEF vars
<1> QED
  BY <1>1, <1>2, <1>3, <1>4, <1>5, <1>6, <1>7, <1>8, <1>9, <1>10, <1>11, <1>12, <1>13, <1>14, <1>15, <1>16, <1>17, <1>18, <1>19
  DEF Next, Handle, Work

LEMMA FaultsStep == Typed /\ [Next]_vars => faults' \in 0..MaxFaults
<1> SUFFICES ASSUME Typed, [Next]_vars PROVE faults' \in 0..MaxFaults
  OBVIOUS
<1> USE ImportAssumption DEF Typed, Counters, Fault, Works, Fails
<1>1. ASSUME NEW j \in Jobs, Upload(j) PROVE faults' \in 0..MaxFaults
  BY <1>1 DEF Upload
<1>2. ASSUME NEW j \in Jobs, UploadFails(j) PROVE faults' \in 0..MaxFaults
  BY <1>2 DEF UploadFails
<1>3. ASSUME NEW j \in Jobs, Commit(j) PROVE faults' \in 0..MaxFaults
  BY <1>3 DEF Commit
<1>4. ASSUME NEW j \in Jobs, CommitFails(j) PROVE faults' \in 0..MaxFaults
  BY <1>4 DEF CommitFails
<1>5. ASSUME NEW j \in Jobs, Clean(j) PROVE faults' \in 0..MaxFaults
  BY <1>5 DEF Clean
<1>6. ASSUME NEW j \in Jobs, HandlerDies(j) PROVE faults' \in 0..MaxFaults
  BY <1>6 DEF HandlerDies
<1>7. ASSUME NEW j \in Jobs, Begin(j) PROVE faults' \in 0..MaxFaults
  BY <1>7 DEF Begin
<1>8. ASSUME NEW j \in Jobs, BeginFails(j) PROVE faults' \in 0..MaxFaults
  BY <1>8 DEF BeginFails
<1>9. ASSUME NEW j \in Jobs, Expire(j) PROVE faults' \in 0..MaxFaults
  BY <1>9 DEF Expire
<1>10. ASSUME NEW j \in Jobs, Die(j) PROVE faults' \in 0..MaxFaults
  BY <1>10 DEF Die
<1>11. ASSUME NEW j \in Jobs, Download(j) PROVE faults' \in 0..MaxFaults
  BY <1>11 DEF Download
<1>12. ASSUME NEW j \in Jobs, Fail(j) PROVE faults' \in 0..MaxFaults
  BY <1>12 DEF Fail
<1>13. ASSUME NEW j \in Jobs, Import1(j) PROVE faults' \in 0..MaxFaults
  BY <1>13 DEF Import1
<1>14. ASSUME NEW j \in Jobs, RowFails(j) PROVE faults' \in 0..MaxFaults
  BY <1>14 DEF RowFails
<1>15. ASSUME NEW j \in Jobs, Complete(j) PROVE faults' \in 0..MaxFaults
  BY <1>15 DEF Complete
<1>16. ASSUME NEW j \in Jobs, End(j) PROVE faults' \in 0..MaxFaults
  BY <1>16 DEF End
<1>18. ASSUME NEW j \in Jobs, Claim(j) PROVE faults' \in 0..MaxFaults
  BY <1>18 DEF Claim
<1>19. ASSUME NEW j \in Jobs, Mark(j) PROVE faults' \in 0..MaxFaults
  BY <1>19 DEF Mark, CountFailure, AfterError
<1>17. CASE UNCHANGED vars
  BY <1>17 DEF vars
<1> QED
  BY <1>1, <1>2, <1>3, <1>4, <1>5, <1>6, <1>7, <1>8, <1>9, <1>10, <1>11, <1>12, <1>13, <1>14, <1>15, <1>16, <1>17, <1>18, <1>19
  DEF Next, Handle, Work

LEMMA RowStep == Typed /\ [Next]_vars => row' \in [Jobs -> 1..(Rows + 1)]
<1> SUFFICES ASSUME Typed, [Next]_vars PROVE row' \in [Jobs -> 1..(Rows + 1)]
  OBVIOUS
<1> USE ImportAssumption DEF Typed, Counters
<1>1. ASSUME NEW j \in Jobs, Begin(j) PROVE row' \in [Jobs -> 1..(Rows + 1)]
  BY <1>1 DEF Begin
<1>2. ASSUME NEW j \in Jobs, InRows(j), row' = [row EXCEPT ![j] = row[j] + 1]
      PROVE  row' \in [Jobs -> 1..(Rows + 1)]
  BY <1>2 DEF InRows
<1>3. CASE UNCHANGED row
  BY <1>3
<1>4. ASSUME NEW j \in Jobs, Import1(j) \/ RowFails(j) PROVE row' \in [Jobs -> 1..(Rows + 1)]
  BY <1>4, <1>2 DEF Import1, RowFails
<1> QED
  BY <1>1, <1>3, <1>4
  DEF Next, Handle, Work, vars, attempt, Upload, UploadFails, Commit, CommitFails, Clean, HandlerDies,
      BeginFails, Expire, Die, Download, Fail, Complete, End, Claim, Mark

\* What ends an attempt: the failed attempts are counted, and the task waits
\* for the next only while there is one.
LEMMA AttemptCounted ==
    ASSUME Typed, NEW j \in Jobs, at[j] \in Running,
           tries' = [tries EXCEPT ![j] = tries[j] + 1],
           at' = [at EXCEPT ![j] = AfterError(j)]
    PROVE  tries' \in [Jobs -> 0..MaxAttempts] /\ TriesLeft'
<1>1. tries[j] \in 0..MaxAttempts /\ tries[j] < MaxAttempts
  BY DEF Typed, Counters, TriesLeft
<1>2. tries' \in [Jobs -> 0..MaxAttempts]
  BY <1>1, ImportAssumption DEF Typed, Counters
<1>3. ASSUME NEW k \in Jobs, at'[k] \in Running \union {"absent", "waiting"}
      PROVE  tries'[k] < MaxAttempts
  <2>1. CASE k = j
    BY <1>1, <1>3, <2>1, ImportAssumption DEF Typed, Counters, Shapes, AfterError, Running
  <2>2. CASE k # j
    BY <1>3, <2>2 DEF Typed, Counters, Shapes, TriesLeft
  <2> QED
    BY <2>1, <2>2
<1> QED
  BY <1>2, <1>3 DEF TriesLeft

LEMMA TriesStep == Typed /\ [Next]_vars => tries' \in [Jobs -> 0..MaxAttempts] /\ TriesLeft'
<1> SUFFICES ASSUME Typed, [Next]_vars
             PROVE  tries' \in [Jobs -> 0..MaxAttempts] /\ TriesLeft'
  OBVIOUS
<1>2. ASSUME NEW j \in Jobs, Mark(j) PROVE tries' \in [Jobs -> 0..MaxAttempts] /\ TriesLeft'
  <2>1. CASE UNCHANGED tries /\ at' \in {[at EXCEPT ![j] = "done"], [at EXCEPT ![j] = "stranded"]}
    BY <2>1 DEF Typed, Counters, Shapes, TriesLeft, Running
  <2>2. CASE tries' = [tries EXCEPT ![j] = tries[j] + 1] /\ at' = [at EXCEPT ![j] = AfterError(j)]
    BY <1>2, <2>2, AttemptCounted DEF Mark, CountFailure, Running
  <2> QED
    BY <1>2, <2>1, <2>2 DEF Mark, CountFailure, GoTo
<1>3. ASSUME NEW j \in Jobs, UNCHANGED tries,
             \/ UNCHANGED at
             \/ at[j] \in Running \union {"absent", "waiting"} /\ \E p \in Places : at' = [at EXCEPT ![j] = p]
      PROVE  tries' \in [Jobs -> 0..MaxAttempts] /\ TriesLeft'
  BY <1>3 DEF Typed, Counters, Shapes, TriesLeft
<1>4. ASSUME NEW j \in Jobs, Handle(j) PROVE tries' \in [Jobs -> 0..MaxAttempts] /\ TriesLeft'
  <2>1. UNCHANGED tries
    BY <1>4 DEF Handle, Upload, UploadFails, Commit, CommitFails, Clean, HandlerDies
  <2>2. UNCHANGED at \/ (handler[j] = "uploaded" /\ at' = [at EXCEPT ![j] = "waiting"])
    BY <1>4 DEF Handle, Upload, UploadFails, Commit, CommitFails, Clean, HandlerDies, Insert
  <2>3. handler[j] = "uploaded" => at[j] = "absent"
    BY DEF Typed, Fresh
  <2> QED
    BY <2>1, <2>2, <2>3, <1>3 DEF Places
<1>5. ASSUME NEW j \in Jobs,
             \/ Claim(j) \/ Begin(j) \/ BeginFails(j) \/ Download(j) \/ Fail(j) \/ Complete(j) \/ End(j)
             \/ Expire(j) \/ Die(j)
      PROVE  tries' \in [Jobs -> 0..MaxAttempts] /\ TriesLeft'
  <2>1. at[j] \in Running \union {"absent", "waiting"}
    BY <1>5 DEF Claim, Begin, BeginFails, Download, Fail, Complete, End, Expire, Die, Running
  <2>2. UNCHANGED at \/ \E p \in Places : at' = [at EXCEPT ![j] = p]
    BY <1>5 DEF Claim, Begin, BeginFails, Download, Fail, Complete, End, Expire, Die, GoTo, Places, Running
  <2>3. UNCHANGED tries
    BY <1>5 DEF Claim, Begin, BeginFails, Download, Fail, Complete, End, Expire, Die
  <2> QED
    BY <2>1, <2>2, <2>3, <1>3
<1>6. CASE UNCHANGED <<at, tries>>
  BY <1>6 DEF Typed, Counters, TriesLeft
<1>7. ASSUME NEW j \in Jobs, Import1(j) \/ RowFails(j)
      PROVE  tries' \in [Jobs -> 0..MaxAttempts] /\ TriesLeft'
  BY <1>7, <1>6 DEF Import1, RowFails
<1> QED
  BY <1>2, <1>4, <1>5, <1>6, <1>7 DEF Next, Work, vars

LEMMA FreshStep == Typed /\ [Next]_vars => Fresh'
<1> SUFFICES ASSUME Typed, [Next]_vars PROVE Fresh'
  OBVIOUS
<1> USE DEF Typed, Shapes, Fresh, upload, record, attempt, outside, GoTo
<1>1. ASSUME NEW j \in Jobs, Upload(j) PROVE Fresh'
  BY <1>1 DEF Upload
<1>2. ASSUME NEW j \in Jobs, UploadFails(j) PROVE Fresh'
  BY <1>2 DEF UploadFails
<1>3. ASSUME NEW j \in Jobs, Commit(j) PROVE Fresh'
  BY <1>3 DEF Commit, Insert, AfterCommit
<1>4. ASSUME NEW j \in Jobs, CommitFails(j) PROVE Fresh'
  BY <1>4 DEF CommitFails, Insert
<1>5. ASSUME NEW j \in Jobs, Clean(j) PROVE Fresh'
  BY <1>5 DEF Clean
<1>6. ASSUME NEW j \in Jobs, HandlerDies(j) PROVE Fresh'
  BY <1>6 DEF HandlerDies
<1>7. ASSUME NEW j \in Jobs, Begin(j) PROVE Fresh'
  BY <1>7 DEF Begin
<1>8. ASSUME NEW j \in Jobs, BeginFails(j) PROVE Fresh'
  BY <1>8 DEF BeginFails
<1>9. ASSUME NEW j \in Jobs, Expire(j) PROVE Fresh'
  BY <1>9 DEF Expire, Running
<1>10. ASSUME NEW j \in Jobs, Die(j) PROVE Fresh'
  BY <1>10 DEF Die, Running
<1>11. ASSUME NEW j \in Jobs, Download(j) PROVE Fresh'
  BY <1>11 DEF Download
<1>12. ASSUME NEW j \in Jobs, Fail(j) PROVE Fresh'
  BY <1>12 DEF Fail
<1>13. ASSUME NEW j \in Jobs, Import1(j) PROVE Fresh'
  BY <1>13 DEF Import1, Upsert, InRows
<1>14. ASSUME NEW j \in Jobs, RowFails(j) PROVE Fresh'
  BY <1>14 DEF RowFails, Upsert, InRows
<1>15. ASSUME NEW j \in Jobs, Complete(j) PROVE Fresh'
  BY <1>15 DEF Complete, Completed
<1>16. ASSUME NEW j \in Jobs, End(j) PROVE Fresh'
  BY <1>16 DEF End
<1>18. ASSUME NEW j \in Jobs, Claim(j) PROVE Fresh'
  BY <1>18 DEF Claim, Running
<1>19. ASSUME NEW j \in Jobs, Mark(j) PROVE Fresh'
  BY <1>19 DEF Mark, CountFailure, AfterError, CountFailure, Running
<1>17. CASE UNCHANGED vars
  BY <1>17 DEF vars
<1> QED
  BY <1>1, <1>2, <1>3, <1>4, <1>5, <1>6, <1>7, <1>8, <1>9, <1>10, <1>11, <1>12, <1>13, <1>14, <1>15, <1>16, <1>17, <1>18, <1>19
  DEF Next, Handle, Work

LEMMA TypedStep == Typed /\ [Next]_vars => Typed'
BY ShapesStep, FaultsStep, RowStep, TriesStep, FreshStep DEF Typed, Counters

LEMMA InitTyped == Init => Typed
<1> SUFFICES ASSUME Init PROVE Typed
  OBVIOUS
<1>1. Shapes
  BY InitTypes DEF TypeOK, Shapes
<1>2. TriesLeft
  BY ImportAssumption DEF Init, TriesLeft
<1>3. Counters
  BY <1>2, InitTypes DEF TypeOK, Counters
<1>4. Fresh
  BY DEF Init, Fresh
<1> QED
  BY <1>1, <1>3, <1>4 DEF Typed

\* Types, for every instance.
THEOREM TypeCorrect == Spec => []TypeOK
<1>1. Typed => TypeOK
  BY DEF Typed, Shapes, Counters, TypeOK
<1> QED
  BY <1>1, InitTyped, TypedStep, PTL DEF Spec

-----------------------------------------------------------------------------
(* The report of an import: what an attempt has counted was imported, what  *)
(* it has passed over has an excuse, and only its last step writes          *)
(* "completed".                                                             *)

Explained(j, n) == <<j, n>> \in Invalid \/ n \in troubled[j]

JobReport(j) ==
    /\ good[j] \subseteq imported[j] /\ reported[j] \subseteq imported[j]
    /\ at[j] \in {"download", "rows", "failing"} => status[j] = "processing"
    /\ at[j] = "download" => row[j] = 1
    /\ at[j] = "rows" => \A n \in 1..Rows : n < row[j] => n \in good[j] \/ Explained(j, n)
    /\ status[j] = "completed" =>
         /\ total[j] = Rows
         /\ \A n \in 1..Rows : n \in reported[j] \/ Explained(j, n)

ReportInv == \A j \in Jobs : JobReport(j)

\* A step that leaves the job's variables alone leaves its report true.
LEMMA ReportKept ==
    ASSUME NEW j \in Jobs, JobReport(j),
           good'[j] = good[j], reported'[j] = reported[j], imported'[j] = imported[j],
           at'[j] = at[j], status'[j] = status[j], row'[j] = row[j], total'[j] = total[j],
           troubled'[j] = troubled[j]
    PROVE  JobReport(j)'
BY DEF JobReport, Explained

LEMMA ReportStep == Typed /\ ReportInv /\ [Next]_vars => ReportInv'
<1> SUFFICES ASSUME Typed, ReportInv, [Next]_vars PROVE ReportInv'
  OBVIOUS
<1> USE DEF Typed, Shapes, record, attempt, outside, GoTo
<1>o. ASSUME NEW j \in Jobs, Handle(j) \/ Work(j) \/ Expire(j) \/ Die(j),
             NEW k \in Jobs \ {j}
      PROVE  JobReport(k)'
  <2>1. JobReport(k)
    BY DEF ReportInv
  <2>2. at'[k] = at[k]
    BY <1>o DEF Handle, Work, Upload, UploadFails, Commit, CommitFails, Clean, HandlerDies, Begin, BeginFails,
         Expire, Die, Download, Fail, Import1, RowFails, Complete, End, Claim, Mark, Insert
  <2>3. status'[k] = status[k]
    BY <1>o DEF Handle, Work, Upload, UploadFails, Commit, CommitFails, Clean, HandlerDies, Begin, BeginFails,
         Expire, Die, Download, Fail, Import1, RowFails, Complete, End, Claim, Mark, Insert, Completed
  <2>4. total'[k] = total[k] /\ reported'[k] = reported[k]
    <3>1. CASE Handle(j) \/ Expire(j) \/ Die(j)
      BY <3>1 DEF Handle, Upload, UploadFails, Commit, CommitFails, Clean, HandlerDies, Expire, Die
    <3>2. CASE Fail(j)
      BY <3>2 DEF Fail
    <3>3. CASE Complete(j)
      BY <3>3 DEF Complete, Completed
    <3>4. CASE Work(j) /\ ~Fail(j) /\ ~Complete(j)
      BY <3>4 DEF Work, Begin, BeginFails, Download, Import1, RowFails, End, Claim, Mark
    <3> QED
      BY <1>o, <3>1, <3>2, <3>3, <3>4
  <2>5. row'[k] = row[k] /\ good'[k] = good[k] /\ troubled'[k] = troubled[k] /\ imported'[k] = imported[k]
    BY <1>o DEF Handle, Work, Upload, UploadFails, Commit, CommitFails, Clean, HandlerDies, Begin, BeginFails,
         Expire, Die, Download, Fail, Import1, RowFails, Complete, End, Claim, Mark, Upsert, Counters
  <2> QED
    BY <2>1, <2>2, <2>3, <2>4, <2>5, ReportKept
<1>1. ASSUME NEW j \in Jobs, Upload(j) PROVE JobReport(j)'
  BY <1>1, ImportAssumption DEF Upload, Fresh, ReportInv, JobReport, Explained
<1>2. ASSUME NEW j \in Jobs, UploadFails(j) PROVE JobReport(j)'
  BY <1>2, ImportAssumption DEF UploadFails, Fresh, ReportInv, JobReport, Explained
<1>3. ASSUME NEW j \in Jobs, Commit(j) PROVE JobReport(j)'
  BY <1>3, ImportAssumption DEF Commit, AfterCommit, Insert, Fresh, ReportInv, JobReport, Explained
<1>4. ASSUME NEW j \in Jobs, CommitFails(j) PROVE JobReport(j)'
  BY <1>4, ImportAssumption DEF CommitFails, Insert, Fresh, ReportInv, JobReport, Explained
<1>5. ASSUME NEW j \in Jobs, Clean(j) PROVE JobReport(j)'
  BY <1>5, ImportAssumption DEF Clean, ReportInv, JobReport, Explained
<1>6. ASSUME NEW j \in Jobs, HandlerDies(j) PROVE JobReport(j)'
  <2>1. UNCHANGED <<at, status, total, reported, row, good, troubled, imported>>
    BY <1>6 DEF HandlerDies
  <2> QED
    BY <2>1, ReportKept DEF ReportInv
<1>7. ASSUME NEW j \in Jobs, Begin(j) PROVE JobReport(j)'
  BY <1>7, ImportAssumption DEF Begin, Counters, ReportInv, JobReport, Explained
<1>8. ASSUME NEW j \in Jobs, BeginFails(j) PROVE JobReport(j)'
  BY <1>8, ImportAssumption DEF BeginFails, AfterError, ReportInv, JobReport, Explained
<1>9. ASSUME NEW j \in Jobs, Expire(j) PROVE JobReport(j)'
  BY <1>9, ImportAssumption DEF Expire, ReportInv, JobReport, Explained, Counters, Running
<1>10. ASSUME NEW j \in Jobs, Die(j) PROVE JobReport(j)'
  BY <1>10, ImportAssumption DEF Die, ReportInv, JobReport, Explained, Counters, Running
<1>11. ASSUME NEW j \in Jobs, Download(j) PROVE JobReport(j)'
  BY <1>11, ImportAssumption DEF Download, ReportInv, JobReport, Explained
<1>12. ASSUME NEW j \in Jobs, Fail(j) PROVE JobReport(j)'
  BY <1>12, ImportAssumption DEF Fail, FailedStatus, ReportInv, JobReport, Explained
<1>13. ASSUME NEW j \in Jobs, Import1(j) PROVE JobReport(j)'
  <2>1. /\ row[j] \in 1..Rows /\ row' = [row EXCEPT ![j] = row[j] + 1]
        /\ at' = at /\ at[j] = "rows" /\ status' = status /\ total' = total
        /\ reported' = reported /\ troubled' = troubled
    BY <1>13 DEF Import1, InRows, Counters
  <2>2. good'[j] = good[j] \union {row[j]} /\ imported'[j] = imported[j] \union {row[j]}
    BY <1>13 DEF Import1, Upsert, Counted
  <2>3. JobReport(j)
    BY DEF ReportInv
  <2>4. good'[j] \subseteq imported'[j] /\ reported'[j] \subseteq imported'[j]
    BY <2>1, <2>2, <2>3 DEF JobReport
  <2>5. ASSUME NEW n \in 1..Rows, n < row'[j] PROVE n \in good'[j] \/ Explained(j, n)'
    <3>1. n < row[j] \/ n = row[j]
      BY <2>1, <2>5
    <3> QED
      BY <3>1, <2>1, <2>2, <2>3 DEF JobReport, Explained
  <2> QED
    BY <2>1, <2>3, <2>4, <2>5 DEF JobReport, Explained
<1>14. ASSUME NEW j \in Jobs, RowFails(j) PROVE JobReport(j)'
  <2>1. /\ row[j] \in 1..Rows /\ row' = [row EXCEPT ![j] = row[j] + 1]
        /\ at' = at /\ at[j] = "rows" /\ status' = status /\ total' = total
        /\ reported' = reported
    BY <1>14 DEF RowFails, InRows, Counters
  <2>2. good'[j] = good[j] /\ imported[j] \subseteq imported'[j]
    BY <1>14 DEF RowFails, Upsert, Counted
  <2>3. /\ troubled[j] \subseteq troubled'[j]
        /\ <<j, row[j]>> \in Invalid \/ row[j] \in troubled'[j]
    <3>1. CASE <<j, row[j]>> \in Invalid
      BY <3>1, <1>14 DEF RowFails
    <3>2. CASE <<j, row[j]>> \notin Invalid
      <4>1. troubled'[j] = troubled[j] \union {row[j]}
        BY <3>2, <1>14 DEF RowFails
      <4> QED
        BY <4>1
    <3> QED
      BY <3>1, <3>2
  <2>4. JobReport(j)
    BY DEF ReportInv
  <2>5. good'[j] \subseteq imported'[j] /\ reported'[j] \subseteq imported'[j]
    BY <2>1, <2>2, <2>4 DEF JobReport
  <2>6. ASSUME NEW n \in 1..Rows, n < row'[j] PROVE n \in good'[j] \/ Explained(j, n)'
    <3>1. n < row[j] \/ n = row[j]
      <4>1. row'[j] = row[j] + 1 /\ row[j] \in Nat
        BY <2>1 DEF Counters
      <4> QED
        BY <4>1, <2>6
    <3>2. CASE n = row[j]
      BY <3>2, <2>1, <2>3 DEF Explained
    <3>3. CASE n < row[j]
      BY <3>3, <2>1, <2>2, <2>3, <2>4 DEF JobReport, Explained
    <3> QED
      BY <3>1, <3>2, <3>3
  <2> QED
    BY <2>1, <2>4, <2>5, <2>6 DEF JobReport, Explained
<1>15. ASSUME NEW j \in Jobs, Complete(j) PROVE JobReport(j)'
  <2>1. /\ at[j] = "rows" /\ at'[j] = "delete" /\ row[j] = Rows + 1
        /\ UNCHANGED <<good, imported, troubled>>
    BY <1>15 DEF Complete
  <2>2. JobReport(j)
    BY DEF ReportInv
  <2>3. \A n \in 1..Rows : n \in good[j] \/ Explained(j, n)
    BY <2>1, <2>2, ImportAssumption DEF JobReport
  <2>4. CASE UNCHANGED record
    BY <2>1, <2>2, <2>4 DEF JobReport, Explained
  <2>5. CASE Completed(j)
    BY <2>1, <2>2, <2>3, <2>5 DEF JobReport, Explained, Completed
  <2> QED
    BY <1>15, <2>4, <2>5 DEF Complete
<1>16. ASSUME NEW j \in Jobs, End(j) PROVE JobReport(j)'
  BY <1>16 DEF End, ReportInv, JobReport, Explained
<1>18. ASSUME NEW j \in Jobs, Claim(j) PROVE JobReport(j)'
  BY <1>18 DEF Claim, ReportInv, JobReport, Explained
<1>19. ASSUME NEW j \in Jobs, Mark(j) PROVE JobReport(j)'
  BY <1>19 DEF Mark, CountFailure, AfterError, ReportInv, JobReport, Explained
<1>17. CASE UNCHANGED vars
  BY <1>17, ReportKept DEF vars, ReportInv
<1>q. ASSUME NEW j \in Jobs, Handle(j) \/ Work(j) \/ Expire(j) \/ Die(j) PROVE JobReport(j)'
  BY <1>q, <1>1, <1>2, <1>3, <1>4, <1>5, <1>6, <1>7, <1>8, <1>9, <1>10, <1>11, <1>12, <1>13, <1>14, <1>15, <1>16, <1>18, <1>19
  DEF Handle, Work
<1>r. CASE \E j \in Jobs : Handle(j) \/ Work(j) \/ Expire(j) \/ Die(j)
  BY <1>r, <1>o, <1>q DEF ReportInv
<1> QED
  BY <1>17, <1>r DEF Next

\* The report of a completed import is true.
THEOREM ReportSound == Spec => []ReportIsTrue
<1>1. Init => ReportInv
  BY DEF Init, ReportInv, JobReport
<1>2. ReportInv => ReportIsTrue
  BY DEF ReportInv, JobReport, Explained, ReportIsTrue
<1> QED
  BY <1>1, <1>2, InitTyped, TypedStep, ReportStep, PTL DEF Spec
-----------------------------------------------------------------------------
(* The end of an import: the file and the status that an attempt leaves.    *)

\* No further attempt of j can import a row, unless a file was spared.
Spent(j) == \/ "spared" \in excused[j]
            \/ at[j] \in {"failing", "delete", "done", "dead", "stranded"}
            \/ at[j] \in {"ended", "waiting", "claimed", "download"} /\ j \notin stored

JobEnd(j) ==
    /\ at[j] \in {"delete", "ended", "done", "dead"} =>
         status[j] \in {"completed", "failed"} \/ "untold" \in excused[j]
    /\ (at[j] = "ended" \/ Settled(j)) /\ j \in stored => "spared" \in excused[j]
    /\ handler[j] = "uploaded" => j \in stored
    /\ handler[j] = "clean" => at[j] = "absent" \/ "reply" \in excused[j]
    /\ at[j] \in {"waiting", "claimed", "download"} /\ tries[j] = 0 => j \in stored \/ "reply" \in excused[j]
    /\ status[j] = "completed" => Spent(j)

EndInv == \A j \in Jobs : JobEnd(j)

\* A step of one job leaves the others alone.
LEMMA OthersKept ==
    ASSUME Typed, NEW j \in Jobs, Handle(j) \/ Work(j) \/ Expire(j) \/ Die(j),
           NEW k \in Jobs \ {j}
    PROVE  /\ at'[k] = at[k] /\ status'[k] = status[k] /\ tries'[k] = tries[k]
           /\ handler'[k] = handler[k] /\ excused'[k] = excused[k]
           /\ (k \in stored' <=> k \in stored)
<1> USE DEF Typed, Shapes, record, attempt, outside, upload, GoTo, Excuse
<1>1. at'[k] = at[k] /\ status'[k] = status[k]
  BY DEF Handle, Work, Upload, UploadFails, Commit, CommitFails, Clean, HandlerDies, Begin, BeginFails,
     Expire, Die, Download, Fail, Import1, RowFails, Complete, End, Claim, Mark, Insert, Completed
<1>2. tries'[k] = tries[k] /\ handler'[k] = handler[k]
  BY DEF Counters, Handle, Work, Upload, UploadFails, Commit, CommitFails, Clean, HandlerDies, Begin, BeginFails,
     Expire, Die, Download, Fail, Import1, RowFails, Complete, End, Claim, Mark, CountFailure
<1>3. excused'[k] = excused[k]
  BY DEF Handle, Work, Upload, UploadFails, Commit, CommitFails, Clean, HandlerDies, Begin, BeginFails,
     Expire, Die, Download, Fail, Import1, RowFails, Complete, End, Claim, Mark
<1>4. k \in stored' <=> k \in stored
  BY DEF Handle, Work, Upload, UploadFails, Commit, CommitFails, Clean, HandlerDies, Begin, BeginFails,
     Expire, Die, Download, Fail, Import1, RowFails, Complete, End, Claim, Mark, Removed
<1> QED
  BY <1>1, <1>2, <1>3, <1>4

\* What has nothing left to import stays so.
LEMMA SpentStep ==
    ASSUME Typed, NEW j \in Jobs, Spent(j), [Next]_vars
    PROVE  Spent(j)'
<1> USE DEF Spent, Typed, Shapes, record, attempt, outside, upload, GoTo, Excuse
<1>1. ASSUME NEW k \in Jobs \ {j}, Handle(k) \/ Work(k) \/ Expire(k) \/ Die(k) PROVE Spent(j)'
  BY <1>1, OthersKept DEF Spent
<1>2. CASE Handle(j)
  BY <1>2 DEF Fresh, Handle, Upload, UploadFails, Commit, CommitFails, Clean, HandlerDies, Insert
<1>3. CASE Claim(j) \/ Begin(j) \/ BeginFails(j) \/ Download(j) \/ Fail(j)
  BY <1>3 DEF Claim, Begin, BeginFails, Download, Fail
<1>4. CASE Import1(j) \/ RowFails(j) \/ Complete(j) \/ Expire(j)
  BY <1>4 DEF Import1, RowFails, Complete, InRows, Expire
<1>5. CASE End(j) \/ Mark(j) \/ Die(j)
  BY <1>5 DEF End, Mark, Die, Removed, AfterError
<1>6. CASE UNCHANGED vars
  BY <1>6 DEF vars
<1> QED
  BY <1>1, <1>2, <1>3, <1>4, <1>5, <1>6 DEF Next, Work

LEMMA EndStep == Typed /\ EndInv /\ [Next]_vars => EndInv'
<1> SUFFICES ASSUME Typed, EndInv, [Next]_vars, NEW j \in Jobs PROVE JobEnd(j)'
  BY DEF EndInv
<1>i. JobEnd(j) /\ (Spent(j) => Spent(j)')
  BY SpentStep DEF EndInv
<1>o. ASSUME NEW k \in Jobs \ {j}, Handle(k) \/ Work(k) \/ Expire(k) \/ Die(k) PROVE JobEnd(j)'
  BY <1>i, <1>o, OthersKept DEF JobEnd, Settled
<1> USE <1>i DEF Typed, Shapes, JobEnd, Settled, record, attempt, outside, upload, GoTo, Excuse
<1>1. CASE Upload(j) \/ UploadFails(j)
  BY <1>1 DEF Fresh, Upload, UploadFails
<1>2. CASE Commit(j)
  BY <1>2 DEF Fresh, Commit, Insert, AfterCommit
<1>3. CASE CommitFails(j)
  BY <1>3 DEF Fresh, CommitFails, Insert
<1>4. CASE Clean(j) \/ HandlerDies(j)
  BY <1>4 DEF Clean, HandlerDies
<1>5. CASE Begin(j)
  BY <1>5 DEF Begin
<1>6. CASE BeginFails(j)
  BY <1>6 DEF BeginFails, Spent
<1>7. CASE Download(j)
  BY <1>7 DEF Download
<1>8. CASE Fail(j)
  BY <1>8 DEF Fail, FailedStatus
<1>9. CASE Import1(j) \/ RowFails(j)
  BY <1>9 DEF Import1, RowFails
<1>10. CASE Complete(j)
  BY <1>10 DEF Complete, Completed, Spent
<1>11. CASE End(j)
  BY <1>11 DEF End, Removed, Fresh, Spent
<1>14. CASE Mark(j)
  <2>1. /\ at[j] = "ended" /\ UNCHANGED <<handler, status, stored, excused>>
        /\ at'[j] \in {"waiting", "done", "dead", "stranded"}
    BY <1>14 DEF Mark, CountFailure, AfterError
  <2>2. at'[j] = "waiting" => tries'[j] # 0
    <3>1. tries \in [Jobs -> 0..MaxAttempts] /\ tries[j] \in Nat
      BY ImportAssumption DEF Counters
    <3>2. at'[j] \in {"done", "stranded"} \/ tries' = [tries EXCEPT ![j] = tries[j] + 1]
      BY <1>14 DEF Mark, CountFailure
    <3> QED
      BY <3>1, <3>2
  <2> QED
    BY <2>1, <2>2 DEF Spent
<1>15. CASE Claim(j)
  BY <1>15 DEF Claim
<1>12. CASE Expire(j) \/ Die(j)
  BY <1>12 DEF Expire, Die, Running
<1>13. CASE UNCHANGED vars
  BY <1>13 DEF vars
<1> QED
  BY <1>o, <1>1, <1>2, <1>3, <1>4, <1>5, <1>6, <1>7, <1>8, <1>9, <1>10, <1>11, <1>12, <1>13, <1>14, <1>15
  DEF Next, Handle, Work

LEMMA InitEnd == Init => EndInv
BY DEF Init, EndInv, JobEnd, Settled

THEOREM EndInvariant == Spec => [](Typed /\ EndInv)
BY InitTyped, InitEnd, TypedStep, EndStep, PTL DEF Spec

\* A settled import tells its end to the administrator, unless the statement
\* that should have told it failed.
THEOREM EndsAreTold == Spec => []EndIsTold
<1>1. EndInv => EndIsTold
  BY DEF EndInv, JobEnd, EndIsTold, Settled
<1> QED
  BY <1>1, EndInvariant, PTL

\* The file is there for the first attempt, unless the handler's commit was
\* misreported, and gone in the end, unless the storage or an early statement
\* failed.
THEOREM FilesLive == Spec => []FileLifetime
<1>1. EndInv => FileLifetime
  BY DEF EndInv, JobEnd, FileLifetime
<1> QED
  BY <1>1, EndInvariant, PTL

-----------------------------------------------------------------------------
(* Corrections: an import that was complete when another was uploaded has   *)
(* nothing left to import.                                                  *)

AfterInv == \A k, j \in Jobs : <<k, j>> \in after => k # j /\ Spent(j)

CorrectionInv == AfterInv /\ CorrectionHolds

LEMMA AfterChanges ==
  ASSUME [Next]_vars, after' # after
  PROVE  \E x \in Jobs : Upload(x)
BY DEF Next, vars, Handle, Work, UploadFails, Commit, CommitFails, Clean, HandlerDies,
   Begin, BeginFails, Expire, Die, Download, Fail, Import1, RowFails, Complete, End, Claim, Mark

LEMMA AfterStep == Typed /\ EndInv /\ AfterInv /\ [Next]_vars => AfterInv'
<1> SUFFICES ASSUME Typed, EndInv, AfterInv, [Next]_vars,
                    NEW k \in Jobs, NEW j \in Jobs, <<k, j>> \in after'
             PROVE  k # j /\ Spent(j)'
  BY DEF AfterInv
<1>1. CASE <<k, j>> \in after
  BY <1>1, SpentStep DEF AfterInv
<1>2. CASE <<k, j>> \notin after
  <2>1. Upload(k) /\ status[j] = "completed"
    <3>1. PICK x \in Jobs : Upload(x)
      BY <1>2, AfterChanges
    <3> QED
      BY <1>2, <3>1 DEF Upload
  <2>2. status[k] = "absent"
    BY <2>1 DEF Upload, Typed, Fresh
  <2>3. Spent(j)
    BY <2>1 DEF EndInv, JobEnd
  <2> QED
    BY <2>1, <2>2, <2>3, SpentStep
<1> QED
  BY <1>1, <1>2

LEMMA SparedStays ==
  ASSUME Typed, NEW j \in Jobs, "spared" \in excused[j], [Next]_vars
  PROVE  "spared" \in excused'[j]
<1> USE DEF Typed, Shapes, Excuse
<1>1. ASSUME NEW k \in Jobs, Handle(k) PROVE "spared" \in excused'[j]
  BY <1>1 DEF Handle, Upload, UploadFails, Commit, CommitFails, Clean, HandlerDies
<1>2. ASSUME NEW k \in Jobs, Work(k) PROVE "spared" \in excused'[j]
  <2>1. CASE k # j
    BY <1>2, <2>1, OthersKept
  <2>2. CASE Begin(j) \/ Download(j) \/ Import1(j) \/ RowFails(j)
    BY <2>2 DEF Begin, Download, Import1, RowFails
  <2>3. CASE BeginFails(j) \/ Fail(j) \/ Complete(j) \/ End(j)
    BY <2>3 DEF BeginFails, Fail, Complete, End
  <2>4. CASE Claim(j) \/ Mark(j)
    BY <2>4 DEF Claim, Mark
  <2> QED
    BY <1>2, <2>1, <2>2, <2>3, <2>4 DEF Work
<1>3. ASSUME NEW k \in Jobs, Expire(k) \/ Die(k) PROVE "spared" \in excused'[j]
  BY <1>3 DEF Expire, Die
<1> QED
  BY <1>1, <1>2, <1>3 DEF Next, vars

LEMMA OutsideChanges ==
  ASSUME [Next]_vars, ~UNCHANGED outside
  PROVE  \E x \in Jobs : at[x] = "rows" /\ Upsert(x)
<1>1. PICK x \in Jobs : Import1(x) \/ RowFails(x)
  BY DEF Next, vars, Handle, Work, Upload, UploadFails, Commit, CommitFails, Clean, HandlerDies,
     Begin, BeginFails, Expire, Die, Download, Fail, Complete, End, Claim, Mark
<1> QED
  BY <1>1 DEF Import1, RowFails, InRows

LEMMA CorrectionStep == Typed /\ EndInv /\ CorrectionInv /\ [Next]_vars => CorrectionHolds'
<1> SUFFICES ASSUME Typed, EndInv, CorrectionInv, [Next]_vars,
                    NEW j \in Jobs, NEW k \in Jobs, NEW n \in 1..Rows,
                    <<k, j>> \in after', n \in imported'[k], entity'[n] = j
             PROVE  "spared" \in excused'[j]
  BY DEF CorrectionHolds
<1>k. "spared" \in excused[j] => "spared" \in excused'[j]
  BY SparedStays
<1>1. CASE <<k, j>> \notin after
  <2>1. PICK x \in Jobs : Upload(x)
    BY <1>1, AfterChanges
  <2>2. Upload(k) /\ UNCHANGED imported
    BY <1>1, <2>1 DEF Upload, outside
  <2> QED
    BY <2>2 DEF Upload, Typed, Fresh
<1>2. CASE <<k, j>> \in after /\ UNCHANGED outside
  BY <1>2, <1>k DEF CorrectionInv, CorrectionHolds, outside
<1>3. CASE <<k, j>> \in after /\ ~UNCHANGED outside
  <2>1. PICK x \in Jobs : at[x] = "rows" /\ Upsert(x)
    BY <1>3, OutsideChanges
  <2>2. CASE entity[n] = j /\ n \in imported[k]
    BY <1>3, <1>k, <2>2 DEF CorrectionInv, CorrectionHolds
  <2>3. CASE entity[n] # j
    <3>1. x = j
      BY <2>1, <2>3 DEF Upsert, Typed, Shapes
    <3> QED
      BY <1>3, <1>k, <2>1, <3>1 DEF CorrectionInv, AfterInv, Spent
  <2>4. CASE n \notin imported[k]
    <3>1. x = k /\ row[x] = n
      BY <2>1, <2>4 DEF Upsert, Typed, Shapes
    <3>2. entity'[n] = k
      BY <2>1, <3>1 DEF Upsert, Typed, Shapes
    <3> QED
      BY <1>3, <3>2 DEF CorrectionInv, AfterInv
  <2> QED
    BY <2>2, <2>3, <2>4
<1> QED
  BY <1>1, <1>2, <1>3

\* No retry of a completed import puts the old fields back over those of a
\* file that was uploaded later, as long as its own file could be removed.
THEOREM CorrectionsHold == Spec => []CorrectionHolds
<1>1. Init => CorrectionInv
  BY DEF Init, CorrectionInv, AfterInv, CorrectionHolds
<1>2. Typed /\ EndInv /\ CorrectionInv /\ [Next]_vars => CorrectionInv'
  BY AfterStep, CorrectionStep DEF CorrectionInv
<1>3. CorrectionInv => CorrectionHolds
  BY DEF CorrectionInv
<1> QED
  BY <1>1, <1>2, <1>3, EndInvariant, PTL DEF Spec

-----------------------------------------------------------------------------
(* A job is one of the abstract queue.                                      *)

AbstractStep == [Abstract!Next]_(Abstract!queueVars)

MappedStage == [j \in Jobs |-> Stage[at[j]]]

LEMMA StageValues ==
    /\ Stage["absent"] = "none" /\ Stage["waiting"] = "waiting"
    /\ Stage["done"] = "done" /\ Stage["dead"] = "dead"
    /\ \A p \in Running \union {"stranded"} : Stage[p] = "running"
    /\ "waiting" \in Places /\ "done" \in Places /\ "dead" \in Places
BY DEF Stage, Places, Running

\* The job that moves changes its stage, and no other does.
LEMMA StageMoves ==
    ASSUME Typed, NEW j \in Jobs, NEW p \in Places, at' = [at EXCEPT ![j] = p]
    PROVE  /\ MappedStage' = [MappedStage EXCEPT ![j] = Stage[p]]
           /\ MappedStage[j] = Stage[at[j]]
BY DEF Typed, Shapes, MappedStage

\* Within an attempt, the end of its worker included, the queue sees nothing.
LEMMA WithinAttempt ==
    ASSUME Typed, NEW j \in Jobs, at[j] \in Running, NEW p \in Running \union {"stranded"},
           at' = [at EXCEPT ![j] = p], UNCHANGED tries
    PROVE  AbstractStep
<1>1. p \in Places
  BY DEF Places, Running
<1>2. MappedStage' = [MappedStage EXCEPT ![j] = "running"] /\ MappedStage[j] = "running"
  BY <1>1, StageMoves, StageValues
<1>3. MappedStage' = MappedStage
  BY <1>2 DEF MappedStage
<1> QED
  BY <1>3 DEF AbstractStep, Abstract!queueVars, MappedStage

LEMMA Unmoved ==
    ASSUME UNCHANGED <<at, tries>> PROVE AbstractStep
BY DEF AbstractStep, Abstract!queueVars

LEMMA InsertSubmits ==
    ASSUME Typed, NEW j \in Jobs, at[j] = "absent", Insert(j), UNCHANGED tries
    PROVE  AbstractStep
<1>1. MappedStage' = [MappedStage EXCEPT ![j] = "waiting"] /\ MappedStage[j] = "none"
  BY StageMoves, StageValues DEF Insert
<1>2. Abstract!Submit(j)
  BY <1>1 DEF Abstract!Submit, MappedStage
<1> QED
  BY <1>2 DEF AbstractStep, Abstract!Next

LEMMA ClaimStarts ==
    ASSUME Typed, NEW j \in Jobs, Claim(j) PROVE AbstractStep
<1>1. PICK p \in {"claimed", "stranded"} : at' = [at EXCEPT ![j] = p]
  BY DEF Claim, GoTo
<1>2. p \in Places /\ Stage[p] = "running"
  BY StageValues DEF Places, Running
<1>3. Abstract!Start(j)
  BY <1>1, <1>2, StageMoves, StageValues DEF Claim, Abstract!Start, MappedStage
<1> QED
  BY <1>3 DEF AbstractStep, Abstract!Next

\* A failed attempt is a Retry or, when it was the last, a Bury.
LEMMA FailureCounts ==
    ASSUME Typed, NEW j \in Jobs, at[j] = "ended", GoTo(j, AfterError(j)),
           tries' = [tries EXCEPT ![j] = tries[j] + 1]
    PROVE  AbstractStep
<1>1. tries[j] \in Nat /\ tries[j] < MaxAttempts
  <2>1. tries[j] \in 0..MaxAttempts /\ at[j] \in Running
    BY DEF Typed, Counters, Running
  <2> QED
    BY <2>1, ImportAssumption DEF Typed, Counters, TriesLeft
<1>2. MappedStage[j] = "running"
  BY StageValues DEF MappedStage, Running
<1>3. CASE AfterError(j) = "waiting"
  <2>1. tries[j] + 1 < MaxAttempts
    BY <1>3 DEF AfterError
  <2>2. MappedStage' = [MappedStage EXCEPT ![j] = "waiting"]
    BY <1>3, StageMoves, StageValues DEF GoTo
  <2>3. Abstract!Retry(j)
    BY <1>2, <2>1, <2>2 DEF Abstract!Retry, MappedStage
  <2> QED
    BY <2>3 DEF AbstractStep, Abstract!Next
<1>4. CASE AfterError(j) = "dead"
  <2>1. tries[j] + 1 = MaxAttempts
    BY <1>1, <1>4, ImportAssumption DEF AfterError
  <2>2. MappedStage' = [MappedStage EXCEPT ![j] = "dead"]
    BY <1>4, StageMoves, StageValues DEF GoTo
  <2>3. Abstract!Bury(j)
    BY <1>2, <2>1, <2>2 DEF Abstract!Bury, MappedStage
  <2> QED
    BY <2>3 DEF AbstractStep, Abstract!Next
<1> QED
  BY <1>3, <1>4 DEF AfterError

LEMMA SuccessEnds ==
    ASSUME Typed, NEW j \in Jobs, at[j] = "ended", GoTo(j, "done"), UNCHANGED tries
    PROVE  AbstractStep
<1>1. MappedStage[j] = "running"
  BY StageValues DEF MappedStage, Running
<1>2. MappedStage' = [MappedStage EXCEPT ![j] = "done"]
  BY StageMoves, StageValues DEF GoTo
<1>3. Abstract!Succeed(j)
  BY <1>1, <1>2 DEF Abstract!Succeed, MappedStage
<1> QED
  BY <1>3 DEF AbstractStep, Abstract!Next

LEMMA NextAbstract == Typed /\ [Next]_vars => AbstractStep
<1> SUFFICES ASSUME Typed, [Next]_vars PROVE AbstractStep
  OBVIOUS
<1>1. ASSUME NEW j \in Jobs, Handle(j) PROVE AbstractStep
  <2>1. CASE Commit(j) \/ CommitFails(j)
    <3>1. at[j] = "absent" /\ UNCHANGED tries
      BY <2>1 DEF Commit, CommitFails, Typed, Fresh
    <3>2. Insert(j) \/ UNCHANGED at
      BY <2>1 DEF Commit, CommitFails
    <3> QED
      BY <3>1, <3>2, InsertSubmits, Unmoved
  <2>2. CASE Upload(j) \/ UploadFails(j) \/ Clean(j) \/ HandlerDies(j)
    BY <2>2, Unmoved DEF Upload, UploadFails, Clean, HandlerDies
  <2> QED
    BY <1>1, <2>1, <2>2 DEF Handle
<1>2. ASSUME NEW j \in Jobs, Import1(j) \/ RowFails(j) \/ Expire(j) PROVE AbstractStep
  BY <1>2, Unmoved DEF Import1, RowFails, Expire
<1>3. ASSUME NEW j \in Jobs,
             Begin(j) \/ BeginFails(j) \/ Download(j) \/ Fail(j) \/ Complete(j) \/ End(j) \/ Die(j)
      PROVE  AbstractStep
  <2>1. at[j] \in Running /\ UNCHANGED tries
    BY <1>3 DEF Begin, BeginFails, Download, Fail, Complete, End, Die, Running
  <2>2. \E p \in Running \union {"stranded"} : at' = [at EXCEPT ![j] = p]
    BY <1>3 DEF Begin, BeginFails, Download, Fail, Complete, End, Die, GoTo, Running
  <2> QED
    BY <2>1, <2>2, WithinAttempt
<1>4. ASSUME NEW j \in Jobs, Mark(j) PROVE AbstractStep
  <2>1. CASE GoTo(j, "stranded") /\ UNCHANGED tries
    BY <1>4, <2>1, WithinAttempt DEF Mark, CountFailure, GoTo, Running
  <2> QED
    BY <1>4, <2>1, FailureCounts, SuccessEnds DEF Mark, CountFailure
<1>5. CASE UNCHANGED vars
  BY <1>5, Unmoved DEF vars
<1> QED
  BY <1>1, <1>2, <1>3, <1>4, <1>5, ClaimStarts DEF Next, Work

\* A job takes the steps of the abstract queue, for any number of uploads, any
\* limit of attempts and any faults.
THEOREM JobsAreQueued == Spec => ImplementsRetryQueue
<1>1. Init => Abstract!Init
  BY DEF Init, Abstract!Init, Stage, Places
<1> QED
  BY <1>1, InitTyped, TypedStep, NextAbstract, PTL
  DEF Spec, ImplementsRetryQueue, Abstract!Spec, AbstractStep

-----------------------------------------------------------------------------
(* The budget of an import.                                                 *)

BudgetNatural == \A j \in Jobs :
    /\ StepsLeft(j) \in 0..StepsOfAttempt /\ StepsOfAttempt \in Nat
    /\ MaxAttempts - tries[j] \in Nat
    /\ (MaxAttempts - tries[j]) * StepsOfAttempt \in Nat
    /\ Budget(j) \in Nat

LEMMA BudgetIsNatural == Typed => BudgetNatural
<1> SUFFICES ASSUME Typed, NEW j \in Jobs
             PROVE  /\ StepsLeft(j) \in 0..StepsOfAttempt /\ StepsOfAttempt \in Nat
                    /\ MaxAttempts - tries[j] \in Nat
                    /\ (MaxAttempts - tries[j]) * StepsOfAttempt \in Nat
                    /\ Budget(j) \in Nat
  BY DEF BudgetNatural
<1>1. row[j] \in 1..(Rows + 1) /\ tries[j] \in 0..MaxAttempts
  BY DEF Typed, Counters
<1>2. StepsLeft(j) \in 0..StepsOfAttempt /\ StepsOfAttempt \in Nat
  BY <1>1, ImportAssumption DEF StepsLeft, StepsOfAttempt
<1>3. MaxAttempts - tries[j] \in Nat
  BY <1>1, ImportAssumption
<1>4. \A m, k \in Nat : m * k \in Nat
  OBVIOUS
<1>5. (MaxAttempts - tries[j]) * StepsOfAttempt \in Nat
  BY <1>2, <1>3, <1>4
<1> QED
  BY <1>2, <1>3, <1>5 DEF Budget

LEMMA BudgetStaysNatural == Typed' => BudgetNatural'
BY BudgetIsNatural, PTL

\* A step within an attempt has fewer left to make.
LEMMA AttemptGoesOn ==
    ASSUME Typed, Typed', NEW j \in Jobs, tries'[j] = tries[j], StepsLeft(j)' < StepsLeft(j)
    PROVE  Budget(j)' \in 0..(Budget(j) - 1)
<1> DEFINE rest == (MaxAttempts - tries[j]) * StepsOfAttempt
<1>1. Budget(j) = rest + StepsLeft(j) /\ Budget(j)' = rest + StepsLeft(j)'
  BY DEF Budget, StepsOfAttempt
<1>2. rest \in Nat /\ StepsLeft(j) \in Nat /\ StepsLeft(j)' \in Nat
  <2>1. StepsLeft(j)' \in 0..StepsOfAttempt
    BY BudgetStaysNatural DEF BudgetNatural, StepsOfAttempt
  <2> QED
    BY <2>1, BudgetIsNatural DEF BudgetNatural
<1> HIDE DEF rest
<1> QED
  BY <1>1, <1>2

\* The mark of a failed attempt pays for a whole new one.
LEMMA AttemptIsPaid ==
    ASSUME Typed, Typed', NEW j \in Jobs, at[j] = "ended", tries'[j] = tries[j] + 1
    PROVE  Budget(j)' \in 0..(Budget(j) - 1)
<1> DEFINE left == MaxAttempts - tries[j]
           k == StepsOfAttempt
<1>1. left \in Nat /\ k \in Nat /\ left - 1 = MaxAttempts - tries'[j]
  <2>1. tries[j] \in 0..MaxAttempts
    BY DEF Typed, Counters
  <2> QED
    BY <2>1, BudgetIsNatural, ImportAssumption DEF BudgetNatural
<1>2. Budget(j) = left * k + 1
  BY DEF Budget, StepsLeft
<1>3. Budget(j)' = (left - 1) * k + StepsLeft(j)'
  BY <1>1 DEF Budget, StepsOfAttempt
<1>4. Budget(j)' \in Nat /\ StepsLeft(j)' \in 0..k
  BY BudgetStaysNatural DEF BudgetNatural, StepsOfAttempt
<1>5. \A m, n \in Int : (m - 1) * n = m * n - n
  OBVIOUS
<1>6. (left - 1) * k = left * k - k /\ left * k \in Nat
  BY <1>1, <1>5, BudgetIsNatural DEF BudgetNatural
<1> HIDE DEF left, k
<1> QED
  BY <1>1, <1>2, <1>3, <1>4, <1>6

LEMMA WorkCosts ==
    ASSUME Typed, Typed', ReportInv, NEW j \in Jobs, Work(j) \/ Die(j)
    PROVE  Budget(j)' \in 0..(Budget(j) - 1)
<1>r. row[j] \in 1..(Rows + 1) /\ Rows \in Nat
  BY ImportAssumption DEF Typed, Counters
<1>a. /\ at \in [Jobs -> Places] /\ tries \in [Jobs -> 0..MaxAttempts]
      /\ row \in [Jobs -> 1..(Rows + 1)]
  BY DEF Typed, Shapes, Counters
<1>1. CASE Claim(j) \/ BeginFails(j) \/ Fail(j) \/ End(j)
  <2>1. StepsLeft(j)' < StepsLeft(j) /\ UNCHANGED tries
    BY <1>1, <1>r, <1>a DEF Claim, BeginFails, Fail, End, GoTo, StepsLeft
  <2> QED
    BY <2>1, AttemptGoesOn
<1>2. CASE Begin(j)
  <2>1. at[j] = "claimed" /\ at'[j] = "download" /\ UNCHANGED tries
    BY <1>2, <1>a DEF Begin, GoTo
  <2> QED
    BY <2>1, <1>r, AttemptGoesOn DEF StepsLeft
<1>3. CASE Download(j)
  <2>1. at[j] = "download" /\ row[j] = 1 /\ at'[j] \in {"rows", "failing"} /\ UNCHANGED <<tries, row>>
    BY <1>3, <1>a DEF Download, GoTo, ReportInv, JobReport
  <2> QED
    BY <2>1, <1>r, AttemptGoesOn DEF StepsLeft
<1>4. CASE Import1(j) \/ RowFails(j)
  <2>1. at[j] = "rows" /\ row'[j] = row[j] + 1 /\ UNCHANGED <<at, tries>>
    BY <1>4, <1>a DEF Import1, RowFails, InRows
  <2> QED
    BY <2>1, <1>r, AttemptGoesOn DEF StepsLeft
<1>5. CASE Complete(j)
  <2>1. at[j] = "rows" /\ row[j] = Rows + 1 /\ at'[j] = "delete" /\ UNCHANGED tries
    BY <1>5, <1>a DEF Complete, GoTo
  <2> QED
    BY <2>1, <1>r, AttemptGoesOn DEF StepsLeft
<1>6. CASE Mark(j)
  <2>1. CASE CountFailure(j)
    BY <1>6, <2>1, <1>a, AttemptIsPaid DEF Mark, CountFailure
  <2>2. CASE UNCHANGED tries /\ at' \in {[at EXCEPT ![j] = "done"], [at EXCEPT ![j] = "stranded"]}
    BY <1>6, <2>2, <1>a, AttemptGoesOn DEF Mark, StepsLeft
  <2> QED
    BY <1>6, <2>1, <2>2 DEF Mark, GoTo
<1>7. CASE Die(j)
  <2>1. StepsLeft(j) > 0
    BY <1>7, <1>r DEF Die, Running, StepsLeft
  <2>2. at'[j] = "stranded" /\ UNCHANGED tries
    BY <1>7, <1>a DEF Die, GoTo
  <2> QED
    BY <2>1, <2>2, AttemptGoesOn DEF StepsLeft
<1> QED
  BY <1>1, <1>2, <1>3, <1>4, <1>5, <1>6, <1>7 DEF Work

\* No import runs for ever: each step of a worker on it uses up a part of a
\* budget that the number of rows and max_attempts fix, whatever fails.
THEOREM BudgetsShrink == Spec => BudgetShrinks
<1> DEFINE Cost == \A j \in Jobs : \/ at[j] = "absent"
                                  \/ UNCHANGED <<at[j], tries[j], row[j]>>
                                  \/ Budget(j)' \in 0..(Budget(j) - 1)
<1>1. Typed /\ Typed' /\ ReportInv /\ [Next]_vars => Cost
  <2> SUFFICES ASSUME Typed, Typed', ReportInv, [Next]_vars, NEW j \in Jobs, at[j] # "absent",
                      ~UNCHANGED <<at[j], tries[j], row[j]>>
               PROVE  Budget(j)' \in 0..(Budget(j) - 1)
    OBVIOUS
  <2>1. Work(j) \/ Die(j)
    <3>1. PICK k \in Jobs : Handle(k) \/ Work(k) \/ Expire(k) \/ Die(k)
      BY DEF Next, vars, attempt
    <3>2. k = j
      <4>1. k # j => at'[j] = at[j] /\ tries'[j] = tries[j]
        BY <3>1, OthersKept
      <4>2. k # j => row'[j] = row[j]
        BY <3>1 DEF Typed, Counters, attempt, Handle, Work, Upload, UploadFails, Commit, CommitFails, Clean,
           HandlerDies, Begin, BeginFails, Expire, Die, Download, Fail, Import1, RowFails, Complete,
           End, Claim, Mark
      <4> QED
        BY <4>1, <4>2
    <3>3. ~Expire(j)
      BY DEF Expire
    <3>4. ~Handle(j)
      BY DEF Typed, Fresh, attempt, Handle, Upload, UploadFails, Commit, CommitFails, Clean, HandlerDies
    <3> QED
      BY <3>1, <3>2, <3>3, <3>4
  <2> QED
    BY <2>1, WorkCosts
<1>2. Init => ReportInv
  BY DEF Init, ReportInv, JobReport
<1>3. Spec => [](Typed /\ ReportInv)
  BY <1>2, InitTyped, TypedStep, ReportStep, PTL DEF Spec
<1> QED
  BY <1>1, <1>3, PTL DEF Spec, BudgetShrinks
=============================================================================
