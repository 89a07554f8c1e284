----------------------------- MODULE CronProofs -----------------------------
(* Theorems about the cron loop, for any number of processes, of admin     *)
(* requests, of users and of days.                                          *)
EXTENDS Cron, TLAPS

LEMMA FindTroubles ==
  ASSUME NEW p \in Runners, Find(p), run[p] \in Days, troubled \subseteq Days
  PROVE  troubled' \subseteq Days
<1>1. CASE UNCHANGED troubled
  BY <1>1
<1>2. CASE troubled' = troubled \union {run[p]}
  BY <1>2
<1> QED
  BY <1>1, <1>2 DEF Find, Fault

LEMMA TypeStep == TypeOK /\ [Next]_vars => TypeOK'
<1> SUFFICES ASSUME TypeOK, [Next]_vars PROVE TypeOK'
  OBVIOUS
<1> USE CronAssumption
    DEF TypeOK, Days, Hours, Runners, RowStates, Phases, Goto, Forget, AfterDaily,
        EndCheck, Fault, clock, rows, past
<1>1. ASSUME NEW p \in Procs, SkipDaily(p) PROVE TypeOK'
  BY <1>1 DEF SkipDaily
<1>2. ASSUME NEW p \in Procs, LookSweep(p) PROVE TypeOK'
  BY <1>2 DEF LookSweep
<1>3. ASSUME NEW p \in Procs, SkipSweep(p) PROVE TypeOK'
  <2>1. troubled' \subseteq Days /\ checked' \subseteq Procs
    BY <1>3 DEF SkipSweep
  <2>2. run' \in [Runners -> Days] /\ pc' \in [Runners -> Phases]
    BY <1>3 DEF SkipSweep
  <2> QED
    BY <1>3, <2>1, <2>2 DEF SkipSweep
<1>4. ASSUME NEW p \in Procs, Wake(p) PROVE TypeOK'
  BY <1>4 DEF Wake
<1>5. ASSUME NEW p \in Admins, ManualSweep(p) PROVE TypeOK'
  BY <1>5 DEF ManualSweep
<1>6. ASSUME NEW p \in Runners, ClaimDaily(p) PROVE TypeOK'
  BY <1>6 DEF ClaimDaily
<1>7. ASSUME NEW p \in Runners, ClaimFails(p) PROVE TypeOK'
  BY <1>7 DEF ClaimFails
<1>8. ASSUME NEW p \in Runners, Find(p) PROVE TypeOK'
  <2>1. todo' \in [Runners -> SUBSET Users]
    BY <1>8 DEF Find
  <2>3. troubled' \subseteq Days
    <3>1. run[p] \in Days /\ troubled \subseteq Days
      OBVIOUS
    <3> HIDE DEF TypeOK
    <3> QED
      BY <1>8, <3>1, FindTroubles
  <2>2. pc' \in [Runners -> Phases]
    BY <1>8 DEF Find
  <2> QED
    BY <1>8, <2>1, <2>2, <2>3 DEF Find
<1>9. ASSUME NEW p \in Runners, CompleteDaily(p) PROVE TypeOK'
  <2>1. troubled' \subseteq Days /\ daily' \in [Days -> RowStates]
    BY <1>9 DEF CompleteDaily
  <2>2. run' \in [Runners -> Days] /\ pc' \in [Runners -> Phases]
    BY <1>9 DEF CompleteDaily
  <2> QED
    BY <1>9, <2>1, <2>2 DEF CompleteDaily
<1>10. ASSUME NEW p \in Runners, Upsert(p) PROVE TypeOK'
  BY <1>10 DEF Upsert
<1>11. ASSUME NEW p \in Runners, UpsertFails(p) PROVE TypeOK'
  BY <1>11 DEF UpsertFails
<1>12. ASSUME NEW p \in Runners, Delete(p) PROVE TypeOK'
  BY <1>12 DEF Delete
<1>13. ASSUME NEW p \in Runners, Crash(p) PROVE TypeOK'
  <2>1. run[p] \in Days
    OBVIOUS
  <2>2. troubled' \subseteq Days
    BY <1>13, <2>1 DEF Crash
  <2>3. run' \in [Runners -> Days] /\ pc' \in [Runners -> Phases]
    BY <1>13 DEF Crash
  <2> QED
    BY <1>13, <2>2, <2>3 DEF Crash
<1>14. ASSUME NEW p \in Runners, NEW u \in Users, Enqueue(p, u) PROVE TypeOK'
  <2>1. run[p] \in Days /\ sent[run[p]] \in [Users -> Nat]
    OBVIOUS
  <2>2. OneMore(sent[run[p]], u) \in [Users -> Nat]
    BY <2>1 DEF OneMore
  <2>3. sent' \in [Days -> [Users -> Nat]] /\ troubled' \subseteq Days
    BY <1>14, <2>1, <2>2 DEF Enqueue
  <2>4. todo' \in [Runners -> SUBSET Users]
    BY <1>14 DEF Enqueue
  <2> QED
    BY <1>14, <2>3, <2>4 DEF Enqueue
<1>15. CASE Tick
  <2>1. day' \in Days /\ hour' \in Hours
    BY <1>15 DEF Tick
  <2>2. troubled' \subseteq Days
    BY <1>15, <2>1 DEF Tick
  <2> QED
    BY <1>15, <2>1, <2>2 DEF Tick
<1>16. CASE UNCHANGED vars
  BY <1>16 DEF vars
<1> QED
  BY <1>1, <1>2, <1>3, <1>4, <1>5, <1>6, <1>7, <1>8, <1>9, <1>10, <1>11, <1>12, <1>13, <1>14, <1>15, <1>16
  DEF Next, CheckStep, RunnerStep

\* Types, for every instance.
THEOREM TypeCorrect == Spec => []TypeOK
<1>1. Init => TypeOK
  BY CronAssumption
  DEF Init, TypeOK, Days, Hours, Runners, RowStates, Phases
<1> QED
  BY <1>1, TypeStep, PTL DEF Spec

-----------------------------------------------------------------------------
(* The row of a day is what makes its job exclusive: a runner at work has  *)
(* it, nobody else does, and what it has still to enqueue is not enqueued. *)

HasRow == \A r \in Runners : pc[r] \in {"find", "enqueue"} => daily[run[r]] = "started"

Alone == \A r, q \in Runners :
            /\ pc[r] \in {"find", "enqueue"} /\ pc[q] \in {"find", "enqueue"}
            /\ run[r] = run[q]
            => r = q

NotYetSent ==
    /\ \A d \in Days, u \in Users : daily[d] = "none" => sent[d][u] = 0
    /\ \A r \in Runners, u \in Users : pc[r] = "find" => sent[run[r]][u] = 0
    /\ \A r \in Runners : \A u \in todo[r] : pc[r] = "enqueue" /\ sent[run[r]][u] = 0

DailyInv == TypeOK /\ HasRow /\ Alone /\ NotYetSent /\ RemindedOnce

LEMMA StepDaily == DailyInv /\ [Next]_vars => DailyInv'
<1> SUFFICES ASSUME DailyInv, [Next]_vars PROVE DailyInv'
  OBVIOUS
<1>t. TypeOK /\ TypeOK'
  BY TypeStep DEF DailyInv
<1> USE <1>t
    DEF DailyInv, HasRow, Alone, NotYetSent, RemindedOnce, TypeOK, Runners,
        Goto, Forget, AfterDaily, EndCheck, Fault, Claimable, AllEnqueued,
        clock, rows, past
<1>1. ASSUME NEW p \in Procs, SkipDaily(p) PROVE DailyInv'
  BY <1>1 DEF SkipDaily
<1>2. ASSUME NEW p \in Procs, LookSweep(p) PROVE DailyInv'
  BY <1>2 DEF LookSweep
<1>3. ASSUME NEW p \in Procs, SkipSweep(p) PROVE DailyInv'
  BY <1>3 DEF SkipSweep
<1>4. ASSUME NEW p \in Procs, Wake(p) PROVE DailyInv'
  BY <1>4 DEF Wake
<1>5. ASSUME NEW p \in Admins, ManualSweep(p) PROVE DailyInv'
  BY <1>5 DEF ManualSweep
<1>6. ASSUME NEW p \in Runners, ClaimDaily(p) PROVE DailyInv'
  BY <1>6 DEF ClaimDaily
<1>7. ASSUME NEW p \in Runners, ClaimFails(p) PROVE DailyInv'
  BY <1>7 DEF ClaimFails
<1>8. ASSUME NEW p \in Runners, Find(p) PROVE DailyInv'
  BY <1>8 DEF Find
<1>9. ASSUME NEW p \in Runners, CompleteDaily(p) PROVE DailyInv'
  BY <1>9 DEF CompleteDaily
<1>10. ASSUME NEW p \in Runners, Upsert(p) PROVE DailyInv'
  BY <1>10 DEF Upsert
<1>11. ASSUME NEW p \in Runners, UpsertFails(p) PROVE DailyInv'
  BY <1>11 DEF UpsertFails
<1>12. ASSUME NEW p \in Runners, Delete(p) PROVE DailyInv'
  BY <1>12 DEF Delete
<1>13. ASSUME NEW p \in Runners, Crash(p) PROVE DailyInv'
  BY <1>13 DEF Crash
<1>14. ASSUME NEW p \in Runners, NEW u \in Users, Enqueue(p, u) PROVE DailyInv'
  <2>1. /\ run[p] \in Days /\ sent[run[p]][u] = 0
        /\ UNCHANGED <<pc, run, daily>>
        /\ todo' = [todo EXCEPT ![p] = todo[p] \ {u}]
    BY <1>14 DEF Enqueue
  <2>2. /\ sent[run[p]] \in [Users -> Nat]
        /\ \A d \in Days, v \in Users :
              d # run[p] \/ v # u => sent'[d][v] = sent[d][v]
    BY <1>14, <2>1 DEF Enqueue, OneMore
  <2>3. sent'[run[p]][u] <= 1
    BY <1>14, <2>1, <2>2 DEF Enqueue, OneMore
  <2>r. ASSUME NEW d \in Days, NEW v \in Users PROVE sent'[d][v] <= 1
    <3>1. CASE d = run[p] /\ v = u
      BY <2>3, <3>1
    <3>2. CASE d # run[p] \/ v # u
      BY <2>2, <3>2
    <3> QED
      BY <3>1, <3>2
  <2>4. HasRow' /\ Alone' /\ RemindedOnce'
    <3>1. HasRow' /\ Alone'
      BY <2>1
    <3> QED
      BY <2>r, <3>1
  <2>5. daily[run[p]] = "started" /\ pc[p] = "enqueue"
    BY <1>14 DEF Enqueue
  <2>6. ASSUME NEW r \in Runners, NEW v \in todo'[r]
        PROVE  pc'[r] = "enqueue" /\ sent'[run'[r]][v] = 0
    <3>1. v \in todo[r] /\ v \in Users /\ run[r] \in Days
      BY <2>1, <2>6
    <3>2. CASE r = p
      BY <2>1, <2>2, <2>6, <3>1, <3>2
    <3>3. CASE r # p
      BY <2>1, <2>2, <2>5, <3>1, <3>3
    <3> QED
      BY <3>2, <3>3
  <2>7. NotYetSent'
    <3>1. ASSUME NEW d \in Days, NEW v \in Users, daily'[d] = "none"
          PROVE  sent'[d][v] = 0
      <4>1. daily[d] = "none" /\ d # run[p]
        BY <2>1, <2>5, <3>1
      <4>2. sent[d][v] = 0
        BY <4>1
      <4> QED
        BY <2>2, <4>1, <4>2
    <3>2. ASSUME NEW r \in Runners, NEW v \in Users, pc'[r] = "find"
          PROVE  sent'[run'[r]][v] = 0
      <4>1. run[r] \in Days /\ pc[r] = "find" /\ r # p /\ run[r] # run[p]
        BY <2>1, <2>5, <3>2
      <4> QED
        BY <2>1, <2>2, <3>2, <4>1
    <3> QED
      BY <2>6, <3>1, <3>2
  <2> QED
    BY <2>4, <2>7
<1>15. CASE Tick
  BY <1>15 DEF Tick
<1>16. CASE UNCHANGED vars
  BY <1>16 DEF vars
<1> QED
  BY <1>1, <1>2, <1>3, <1>4, <1>5, <1>6, <1>7, <1>8, <1>9, <1>10, <1>11, <1>12, <1>13, <1>14, <1>15, <1>16
  DEF Next, CheckStep, RunnerStep

LEMMA InitDaily == Init => DailyInv
BY CronAssumption
DEF Init, DailyInv, HasRow, Alone, NotYetSent, RemindedOnce, TypeOK, Days, Hours,
    Runners, RowStates, Phases

THEOREM DailyInvariant == Spec => []DailyInv
BY InitDaily, StepDaily, PTL DEF Spec

\* No user is sent two reminders under the row of one day.
THEOREM NobodyRemindedTwice == Spec => []RemindedOnce
<1>1. DailyInv => RemindedOnce
  BY DEF DailyInv
<1> QED
  BY <1>1, DailyInvariant, PTL
-----------------------------------------------------------------------------
(* Sweeps: a process that has started one in this hour finds its start, and *)
(* one about to start has found none.                                       *)

LooksFirst == \A p \in Procs : /\ p \notin fresh => lastSweep = clock
                               /\ pc[p] = "upsert" => p \in fresh

LEMMA StepLooks == TypeOK /\ LooksFirst /\ [Next]_vars => LooksFirst'
<1> SUFFICES ASSUME TypeOK, LooksFirst, [Next]_vars PROVE LooksFirst'
  OBVIOUS
<1> USE CronAssumption
    DEF LooksFirst, TypeOK, Runners, Goto, Forget, AfterDaily, EndCheck, Fault, clock, rows, past
<1>1. ASSUME NEW p \in Procs, SkipDaily(p) \/ Wake(p) PROVE LooksFirst'
  BY <1>1 DEF SkipDaily, Wake
<1>2. ASSUME NEW p \in Procs, LookSweep(p) PROVE LooksFirst'
  BY <1>2 DEF LookSweep, SweepDue, StartedThisHour
<1>3. ASSUME NEW p \in Procs, SkipSweep(p) PROVE LooksFirst'
  BY <1>3 DEF SkipSweep
<1>4. ASSUME NEW p \in Admins, ManualSweep(p) PROVE LooksFirst'
  BY <1>4 DEF ManualSweep
<1>5. ASSUME NEW p \in Runners, ClaimDaily(p) \/ ClaimFails(p) \/ Find(p) PROVE LooksFirst'
  BY <1>5 DEF ClaimDaily, ClaimFails, Find
<1>6. ASSUME NEW p \in Runners, CompleteDaily(p) \/ UpsertFails(p) \/ Delete(p) PROVE LooksFirst'
  BY <1>6 DEF CompleteDaily, UpsertFails, Delete
<1>7. ASSUME NEW p \in Runners, Upsert(p) PROVE LooksFirst'
  BY <1>7 DEF Upsert
<1>8. ASSUME NEW p \in Runners, Crash(p) PROVE LooksFirst'
  BY <1>8 DEF Crash
<1>9. ASSUME NEW p \in Runners, NEW u \in Users, Enqueue(p, u) PROVE LooksFirst'
  BY <1>9 DEF Enqueue
<1>10. CASE Tick
  BY <1>10 DEF Tick
<1>11. CASE UNCHANGED vars
  BY <1>11 DEF vars
<1> QED
  BY <1>1, <1>2, <1>3, <1>4, <1>5, <1>6, <1>7, <1>8, <1>9, <1>10, <1>11
  DEF Next, CheckStep, RunnerStep

\* No process starts a second sweep in one hour.
THEOREM SweptOncePerHour == Spec => SweepOncePerHour
<1>1. Init => LooksFirst
  BY DEF Init, LooksFirst
<1>2. LooksFirst /\ [Next]_vars => [\A p \in Procs : Upsert(p) => p \in fresh]_vars
  BY DEF LooksFirst, Upsert
<1> QED
  BY <1>1, <1>2, TypeCorrect, StepLooks, PTL DEF Spec, SweepOncePerHour

-----------------------------------------------------------------------------
(* A quiet day: every process that is not idle began its check in this hour, *)
(* so a check that has ended has looked at both jobs of the hour.            *)

\* The rows say that a sweep was started when one was, or there was trouble.
Recorded == lastSweep # <<>> => lastSweep \in swept \/ lastSweep[1] \in troubled

\* What the checks of this hour have done.
LookedAtSweep ==
    day \notin troubled /\ hour \in SweepHours =>
        \A p \in Procs : p \in checked \/ pc[p] = "delete" => clock \in swept

SweepInv == Recorded /\ LookedAtSweep /\ NoMissedSweep

LEMMA StepSweep == TypeOK /\ SweepInv /\ [Next]_vars => SweepInv'
<1> SUFFICES ASSUME TypeOK, SweepInv, [Next]_vars PROVE SweepInv'
  OBVIOUS
<1>t. TypeOK /\ TypeOK'
  BY TypeStep
<1> USE <1>t, CronAssumption
    DEF SweepInv, Recorded, LookedAtSweep, NoMissedSweep, TypeOK, Runners, Days, Hours,
        Goto, Forget, AfterDaily, EndCheck, Fault, clock, rows, past
<1>1. ASSUME NEW p \in Procs, SkipDaily(p) \/ Wake(p) PROVE SweepInv'
  BY <1>1 DEF SkipDaily, Wake
<1>2. ASSUME NEW p \in Procs, LookSweep(p) PROVE SweepInv'
  BY <1>2 DEF LookSweep
<1>3. ASSUME NEW p \in Procs, SkipSweep(p) PROVE SweepInv'
  <2>1. UNCHANGED <<day, hour, lastSweep, swept>> /\ troubled \subseteq troubled'
    BY <1>3 DEF SkipSweep
  <2>2. Recorded' /\ NoMissedSweep'
    BY <2>1
  <2>3. ASSUME day \notin troubled', hour \in SweepHours PROVE clock \in swept
    <3>1. ~SweepDue
      BY <1>3, <2>3 DEF SkipSweep
    <3>2. lastSweep = clock
      BY <2>3, <3>1 DEF SweepDue, StartedThisHour
    <3>3. clock # <<>> /\ clock[1] = day
      OBVIOUS
    <3>4. day \notin troubled
      BY <2>1, <2>3
    <3> QED
      BY <3>2, <3>3, <3>4
  <2>4. LookedAtSweep'
    BY <2>1, <2>3
  <2> QED
    BY <2>2, <2>4
<1>4. ASSUME NEW p \in Admins, ManualSweep(p) PROVE SweepInv'
  BY <1>4 DEF ManualSweep
<1>5. ASSUME NEW p \in Runners, ClaimDaily(p) \/ ClaimFails(p) \/ Find(p) PROVE SweepInv'
  <2>1. UNCHANGED <<day, hour, lastSweep, swept, checked>> /\ troubled \subseteq troubled'
    BY <1>5 DEF ClaimDaily, ClaimFails, Find
  <2>2. \A q \in Procs : pc'[q] = "delete" => pc[q] = "delete"
    BY <1>5 DEF ClaimDaily, ClaimFails, Find
  <2> QED
    BY <2>1, <2>2
<1>6. ASSUME NEW p \in Runners, CompleteDaily(p) PROVE SweepInv'
  BY <1>6 DEF CompleteDaily
<1>7. ASSUME NEW p \in Runners, Upsert(p) PROVE SweepInv'
  BY <1>7 DEF Upsert
<1>8. ASSUME NEW p \in Runners, Delete(p) PROVE SweepInv'
  BY <1>8 DEF Delete
<1>13. ASSUME NEW p \in Runners, UpsertFails(p) PROVE SweepInv'
  <2>1. /\ UNCHANGED <<day, hour, swept>> /\ troubled' = troubled \union {day}
        /\ lastSweep' = lastSweep \/ lastSweep' = clock
    BY <1>13 DEF UpsertFails
  <2>2. Recorded'
    <3>1. clock[1] = day
      OBVIOUS
    <3> QED
      BY <2>1, <3>1
  <2>3. LookedAtSweep' /\ NoMissedSweep'
    BY <2>1
  <2> QED
    BY <2>2, <2>3
<1>9. ASSUME NEW p \in Runners, Crash(p) PROVE SweepInv'
  BY <1>9 DEF Crash
<1>10. ASSUME NEW p \in Runners, NEW u \in Users, Enqueue(p, u) PROVE SweepInv'
  BY <1>10 DEF Enqueue
<1>11. CASE Tick
  <2>1. Recorded' /\ LookedAtSweep'
    BY <1>11 DEF Tick, OnTime
  <2>2. ASSUME NEW d \in Days \ troubled', NEW h \in SweepHours,
               d < day' \/ (d = day' /\ h < hour')
        PROVE  <<d, h>> \in swept'
    <3>1. UNCHANGED swept /\ d \notin troubled
      BY <1>11, <2>2 DEF Tick
    <3>2. CASE d < day \/ (d = day /\ h < hour)
      BY <3>1, <3>2
    <3>3. CASE d = day /\ h = hour
      <4>1. OnTime
        BY <1>11, <2>2, <3>3 DEF Tick
      <4>2. PICK p \in Procs : p \in checked
        BY <4>1 DEF OnTime
      <4> QED
        BY <3>1, <3>3, <4>2
    <3>4. d < day \/ (d = day /\ h < hour) \/ (d = day /\ h = hour)
      BY <1>11, <2>2 DEF Tick
    <3> QED
      BY <3>2, <3>3, <3>4
  <2> QED
    BY <2>1, <2>2
<1>12. CASE UNCHANGED vars
  BY <1>12 DEF vars
<1> QED
  BY <1>1, <1>2, <1>3, <1>4, <1>5, <1>6, <1>7, <1>8, <1>9, <1>10, <1>11, <1>12, <1>13
  DEF Next, CheckStep, RunnerStep

\* In every target hour of a day without a failure a sweep is started.
THEOREM SweepsNotMissed == Spec => []NoMissedSweep
<1>1. ASSUME Init PROVE SweepInv
  <2>1. ASSUME NEW d \in Days, NEW h \in SweepHours PROVE ~(d < day \/ (d = day /\ h < hour))
    BY <1>1, CronAssumption DEF Init, Days, Hours
  <2>2. Recorded /\ LookedAtSweep
    BY <1>1 DEF Init, Recorded, LookedAtSweep, Runners
  <2> QED
    BY <2>1, <2>2 DEF SweepInv, NoMissedSweep
<1>2. SweepInv => NoMissedSweep
  BY DEF SweepInv
<1> QED
  BY <1>1, <1>2, TypeCorrect, StepSweep, PTL DEF Spec
-----------------------------------------------------------------------------
(* Reminders on a quiet day: at the job's hour a check that gets past the   *)
(* job leaves the day with a row; a day with a row has a runner that has    *)
(* still to enqueue what is not enqueued, or all of it is; and a process is *)
(* at that work in the job's hour, unless it has overrun.                   *)

LookedAtDaily ==
    day \notin troubled /\ hour = DailyHour =>
        \A p \in Procs :
            p \in checked \/ pc[p] \in {"sweep", "upsert", "delete"} => daily[day] # "none"

RowEveryDay ==
    \A d \in Days \ troubled :
        d < day \/ (d = day /\ DailyHour < hour) => daily[d] # "none"

Pending(r, d) ==
    /\ AtWork(r, d)
    /\ \A u \in Users : pc[r] = "find" \/ u \in todo[r] \/ sent[d][u] = 1

AllReminded(d) == \A u \in Users : sent[d][u] = 1

RowIsServed ==
    \A d \in Days \ troubled :
        daily[d] # "none" => AllReminded(d) \/ \E r \in Runners : Pending(r, d)

ProcsInTime ==
    \A p \in Procs, d \in Days :
        AtWork(p, d) => \/ d = day /\ hour = DailyHour
                        \/ d \in troubled /\ day \in troubled

\* What a step that leaves the reminders alone preserves.
LEMMA RowUndisturbed ==
  ASSUME TypeOK, RowIsServed, ProcsInTime, troubled \subseteq troubled',
         UNCHANGED <<day, hour, daily, sent>>,
         \A r \in Runners : \/ pc[r] \notin {"find", "enqueue"} /\ pc'[r] \notin {"find", "enqueue"}
                            \/ pc'[r] = pc[r] /\ run'[r] = run[r] /\ todo'[r] = todo[r]
  PROVE  RowIsServed' /\ ProcsInTime'
<1>1. ASSUME NEW r \in Runners, NEW d \in Days PROVE AtWork(r, d)' <=> AtWork(r, d)
  BY DEF AtWork
<1>2. ASSUME NEW r \in Runners, NEW d \in Days, Pending(r, d) PROVE Pending(r, d)'
  BY <1>2 DEF Pending, AtWork
<1>3. ProcsInTime'
  BY <1>1 DEF ProcsInTime, Runners
<1>4. RowIsServed'
  BY <1>2 DEF RowIsServed, AllReminded
<1> QED
  BY <1>3, <1>4

RemindInv == LookedAtDaily /\ RowEveryDay /\ RowIsServed /\ ProcsInTime

LEMMA StepRemind == DailyInv /\ RemindInv /\ [Next]_vars => RemindInv'
<1> SUFFICES ASSUME DailyInv, RemindInv, [Next]_vars PROVE RemindInv'
  OBVIOUS
<1>t. TypeOK /\ TypeOK'
  BY TypeStep DEF DailyInv
<1>i. LookedAtDaily /\ RowEveryDay /\ RowIsServed /\ ProcsInTime
  BY DEF RemindInv
<1> USE <1>t, <1>i, CronAssumption DEF Runners, clock, rows, past
<1>1. ASSUME NEW p \in Procs, Wake(p) \/ SkipDaily(p) \/ LookSweep(p) \/ SkipSweep(p)
      PROVE  RemindInv'
  <2>1. /\ troubled \subseteq troubled'
        /\ UNCHANGED <<day, hour, daily, sent>>
        /\ \A r \in Runners :
              \/ pc[r] \notin {"find", "enqueue"} /\ pc'[r] \notin {"find", "enqueue"}
              \/ pc'[r] = pc[r] /\ run'[r] = run[r] /\ todo'[r] = todo[r]
    BY <1>1 DEF Wake, SkipDaily, LookSweep, SkipSweep, Goto, Forget, AfterDaily, EndCheck,
                Fault, TypeOK
  <2>2. LookedAtDaily'
    BY <1>1, <2>1 DEF LookedAtDaily, Wake, SkipDaily, LookSweep, SkipSweep, Goto, Forget,
                AfterDaily, EndCheck, Claimable, TypeOK
  <2> QED
    BY <2>1, <2>2, RowUndisturbed DEF RemindInv, RowEveryDay
<1>2. ASSUME NEW a \in Admins, ManualSweep(a) PROVE RemindInv'
  <2>1. /\ UNCHANGED <<day, hour, daily, sent, troubled, todo, checked>>
        /\ \A r \in Runners :
              \/ pc[r] \notin {"find", "enqueue"} /\ pc'[r] \notin {"find", "enqueue"}
              \/ pc'[r] = pc[r] /\ run'[r] = run[r] /\ todo'[r] = todo[r]
        /\ \A p \in Procs : pc'[p] = pc[p]
    BY <1>2 DEF ManualSweep, Goto, TypeOK
  <2>2. LookedAtDaily'
    BY <2>1 DEF LookedAtDaily
  <2> QED
    BY <2>1, <2>2, RowUndisturbed DEF RemindInv, RowEveryDay
<1>3. ASSUME NEW r \in Runners, Upsert(r) \/ UpsertFails(r) \/ Delete(r) PROVE RemindInv'
  <2>1. /\ troubled \subseteq troubled'
        /\ UNCHANGED <<day, hour, daily, sent>>
        /\ \A q \in Runners :
              \/ pc[q] \notin {"find", "enqueue"} /\ pc'[q] \notin {"find", "enqueue"}
              \/ pc'[q] = pc[q] /\ run'[q] = run[q] /\ todo'[q] = todo[q]
    BY <1>3 DEF Upsert, UpsertFails, Delete, Goto, Forget, EndCheck, Fault, TypeOK
  <2>2. LookedAtDaily'
    BY <1>3, <2>1 DEF LookedAtDaily, Upsert, UpsertFails, Delete, Goto, Forget, EndCheck,
                Fault, TypeOK
  <2> QED
    BY <2>1, <2>2, RowUndisturbed DEF RemindInv, RowEveryDay
<1>4. ASSUME NEW r \in Runners, ClaimDaily(r) PROVE RemindInv'
  <2>1. /\ UNCHANGED <<day, hour, sent, troubled, todo, checked>>
        /\ daily[day] = "none" /\ daily' = [daily EXCEPT ![day] = "started"]
        /\ run' = [run EXCEPT ![r] = day]
        /\ pc[r] \notin {"find", "enqueue"} /\ pc' = [pc EXCEPT ![r] = "find"]
        /\ r \in Procs => hour = DailyHour
    BY <1>4 DEF ClaimDaily, Goto, Claimable
  <2>2. LookedAtDaily' /\ RowEveryDay'
    BY <2>1 DEF LookedAtDaily, RowEveryDay, TypeOK
  <2>3. ProcsInTime'
    BY <2>1 DEF ProcsInTime, AtWork, TypeOK
  <2>4. ASSUME NEW d \in Days, d # day, NEW q \in Runners, Pending(q, d) PROVE Pending(q, d)'
    BY <2>1, <2>4 DEF Pending, AtWork, TypeOK
  <2>5. Pending(r, day)'
    BY <2>1 DEF Pending, AtWork, TypeOK
  <2>6. ASSUME NEW d \in Days \ troubled', daily'[d] # "none"
        PROVE  AllReminded(d)' \/ \E q \in Runners : Pending(q, d)'
    <3>1. CASE d = day
      BY <2>1, <2>5, <3>1
    <3>2. CASE d # day
      <4>1. d \in Days \ troubled /\ daily[d] # "none"
        BY <2>1, <2>6, <3>2 DEF TypeOK
      <4>2. CASE AllReminded(d)
        BY <2>1, <4>2 DEF AllReminded
      <4>3. CASE \E q \in Runners : Pending(q, d)
        BY <2>4, <3>2, <4>1, <4>3
      <4> QED
        BY <4>1, <4>2, <4>3 DEF RowIsServed
    <3> QED
      BY <3>1, <3>2
  <2>7. RowIsServed'
    BY <2>6 DEF RowIsServed
  <2> QED
    BY <2>2, <2>3, <2>7 DEF RemindInv
<1>5. ASSUME NEW r \in Runners, ClaimFails(r) PROVE RemindInv'
  <2>1. /\ UNCHANGED <<day, hour, sent, todo, checked>>
        /\ troubled' = troubled \union {day}
        /\ \A d \in Days : d # day => daily'[d] = daily[d]
        /\ pc[r] \notin {"find", "enqueue"} /\ pc'[r] \notin {"find", "enqueue"}
        /\ \A q \in Runners : q # r => pc'[q] = pc[q] /\ run'[q] = run[q]
    BY <1>5 DEF ClaimFails, AfterDaily, Goto, Forget, Fault, TypeOK
  <2>2. LookedAtDaily' /\ RowEveryDay'
    BY <2>1 DEF LookedAtDaily, RowEveryDay
  <2>3. ProcsInTime'
    BY <2>1 DEF ProcsInTime, AtWork
  <2>4. ASSUME NEW d \in Days, NEW q \in Runners, Pending(q, d) PROVE Pending(q, d)'
    BY <2>1, <2>4 DEF Pending, AtWork
  <2>5. RowIsServed'
    BY <2>1, <2>4 DEF RowIsServed, AllReminded
  <2> QED
    BY <2>2, <2>3, <2>5 DEF RemindInv
<1>6. ASSUME NEW r \in Runners, Find(r) PROVE RemindInv'
  <2>1. /\ UNCHANGED <<day, hour, daily, run, sent, checked>>
        /\ pc[r] = "find" /\ pc' = [pc EXCEPT ![r] = "enqueue"]
        /\ \/ todo' = [todo EXCEPT ![r] = Users] /\ UNCHANGED troubled
           \/ UNCHANGED todo /\ troubled' = troubled \union {run[r]}
    BY <1>6 DEF Find, Goto, Fault
  <2>2. LookedAtDaily' /\ RowEveryDay'
    BY <2>1 DEF LookedAtDaily, RowEveryDay, TypeOK
  <2>3. ProcsInTime'
    BY <2>1 DEF ProcsInTime, AtWork, TypeOK
  <2>4. ASSUME NEW d \in Days \ troubled', NEW q \in Runners, Pending(q, d)
        PROVE  Pending(q, d)'
    BY <2>1, <2>4 DEF Pending, AtWork, TypeOK
  <2>5. RowIsServed'
    BY <2>1, <2>4 DEF RowIsServed, AllReminded
  <2> QED
    BY <2>2, <2>3, <2>5 DEF RemindInv
<1>7. ASSUME NEW r \in Runners, NEW u \in Users, Enqueue(r, u) PROVE RemindInv'
  <2>1. /\ UNCHANGED <<day, hour, daily, pc, run, checked>>
        /\ pc[r] = "enqueue" /\ u \in todo[r] /\ todo' = [todo EXCEPT ![r] = todo[r] \ {u}]
        /\ \/ sent' = [sent EXCEPT ![run[r]] = OneMore(sent[run[r]], u)] /\ UNCHANGED troubled
           \/ UNCHANGED sent /\ troubled' = troubled \union {run[r]}
    BY <1>7 DEF Enqueue, Fault
  <2>s. run[r] \in Days /\ sent[run[r]][u] = 0
    BY <2>1 DEF DailyInv, NotYetSent, TypeOK
  <2>2. LookedAtDaily' /\ RowEveryDay' /\ ProcsInTime'
    BY <2>1 DEF LookedAtDaily, RowEveryDay, ProcsInTime, AtWork
  <2>3. ASSUME NEW d \in Days, NEW v \in Users, sent[d][v] = 1 PROVE sent'[d][v] = 1
    <3>1. d # run[r] \/ v # u
      BY <2>3, <2>s
    <3>2. CASE d # run[r]
      BY <2>1, <2>3, <2>s, <3>2 DEF TypeOK
    <3>3. CASE d = run[r] /\ v # u
      <4>1. sent[d] \in [Users -> Nat]
        BY DEF TypeOK
      <4>2. OneMore(sent[d], u)[v] = sent[d][v]
        BY <3>3, <4>1 DEF OneMore
      <4>3. sent'[d] = OneMore(sent[d], u) \/ sent'[d] = sent[d]
        BY <2>1, <3>3 DEF TypeOK
      <4> QED
        BY <2>3, <4>2, <4>3
    <3> QED
      BY <3>1, <3>2, <3>3
  <2>4. run[r] \notin troubled' => sent'[run[r]][u] = 1
    BY <2>1, <2>s DEF OneMore, TypeOK
  <2>5. ASSUME NEW d \in Days \ troubled', NEW q \in Runners, Pending(q, d)
        PROVE  Pending(q, d)'
    BY <2>1, <2>3, <2>4, <2>5 DEF Pending, AtWork, TypeOK
  <2>6. RowIsServed'
    BY <2>1, <2>3, <2>5 DEF RowIsServed, AllReminded
  <2> QED
    BY <2>2, <2>6 DEF RemindInv
<1>8. ASSUME NEW r \in Runners, CompleteDaily(r) PROVE RemindInv'
  <2>1. /\ UNCHANGED <<day, hour, sent, todo, checked>>
        /\ pc[r] = "enqueue" /\ todo[r] = {} /\ pc'[r] \in {"sweep", "idle"}
        /\ \A q \in Runners : q # r => pc'[q] = pc[q] /\ run'[q] = run[q]
        /\ \A d \in Days : daily'[d] = "none" => daily[d] = "none"
        /\ \A d \in Days : daily'[d] # "none" => d = run[r] \/ daily[d] # "none"
        /\ troubled \subseteq troubled'
    BY <1>8 DEF CompleteDaily, AllEnqueued, AfterDaily, Goto, Forget, Fault, TypeOK
  <2>r. run[r] \in Days /\ daily[run[r]] # "none"
    BY <2>1 DEF DailyInv, HasRow, TypeOK
  <2>2. RowEveryDay'
    BY <2>1 DEF RowEveryDay
  <2>3. LookedAtDaily'
    <3>1. ASSUME day \notin troubled', hour = DailyHour, NEW p \in Procs,
                 p \in checked \/ pc'[p] \in {"sweep", "upsert", "delete"}
          PROVE  daily'[day] # "none"
      <4>1. CASE p # r
        BY <2>1, <3>1, <4>1 DEF LookedAtDaily, TypeOK
      <4>2. CASE p = r
        BY <2>1, <2>r, <3>1, <4>2 DEF ProcsInTime, AtWork, TypeOK
      <4> QED
        BY <4>1, <4>2
    <3> QED
      BY <2>1, <3>1 DEF LookedAtDaily
  <2>4. ProcsInTime'
    BY <2>1 DEF ProcsInTime, AtWork
  <2>5. ASSUME NEW d \in Days, NEW q \in Runners, Pending(q, d)
        PROVE  AllReminded(d)' \/ Pending(q, d)'
    BY <2>1, <2>5 DEF Pending, AtWork, AllReminded
  <2>6. RowIsServed'
    BY <2>1, <2>r, <2>5 DEF RowIsServed, AllReminded
  <2> QED
    BY <2>2, <2>3, <2>4, <2>6 DEF RemindInv
<1>9. ASSUME NEW r \in Runners, Crash(r) PROVE RemindInv'
  <2>1. /\ UNCHANGED <<day, hour, daily, sent, checked>>
        /\ \A q \in Runners : q # r =>
              pc'[q] = pc[q] /\ run'[q] = run[q] /\ todo'[q] = todo[q]
        /\ pc'[r] = "idle" /\ troubled \subseteq troubled'
        /\ pc[r] \in {"find", "enqueue"} => run[r] \in troubled'
    BY <1>9 DEF Crash, Goto, Forget, TypeOK
  <2>2. LookedAtDaily' /\ RowEveryDay' /\ ProcsInTime'
    BY <2>1 DEF LookedAtDaily, RowEveryDay, ProcsInTime, AtWork
  <2>3. ASSUME NEW d \in Days \ troubled', NEW q \in Runners, Pending(q, d)
        PROVE  Pending(q, d)'
    BY <2>1, <2>3 DEF Pending, AtWork
  <2>4. RowIsServed'
    BY <2>1, <2>3 DEF RowIsServed, AllReminded
  <2> QED
    BY <2>2, <2>4 DEF RemindInv
<1>10. CASE Tick
  <2>1. /\ UNCHANGED <<daily, pc, run, todo, sent>> /\ checked' = {}
        /\ troubled \subseteq troubled'
        /\ OnTime \/ (day \in troubled' /\ day' \in troubled')
        /\ \/ day' = day /\ hour' = hour + 1 
           \/ day' = day + 1 /\ hour = LastHour /\ hour' = 0
    BY <1>10 DEF Tick, TypeOK, Hours
  <2>2. RowIsServed'
    BY <2>1 DEF RowIsServed, Pending, AtWork, AllReminded
  <2>3. LookedAtDaily'
    BY <2>1 DEF LookedAtDaily, OnTime
  <2>4. ProcsInTime'
    BY <2>1 DEF ProcsInTime, AtWork, OnTime
  <2>5. ASSUME NEW d \in Days \ troubled', d < day' \/ (d = day' /\ DailyHour < hour')
        PROVE  daily[d] # "none"
    <3>1. CASE d < day \/ (d = day /\ DailyHour < hour)
      BY <2>1, <2>5, <3>1 DEF RowEveryDay
    <3>2. CASE d = day /\ hour = DailyHour
      <4>1. PICK p \in Procs : p \in checked
        BY <2>1, <2>5, <3>2 DEF OnTime
      <4> QED
        BY <2>1, <2>5, <3>2, <4>1 DEF LookedAtDaily
    <3>3. d < day \/ (d = day /\ DailyHour < hour) \/ (d = day /\ hour = DailyHour)
      BY <2>1, <2>5 DEF TypeOK, Days, Hours
    <3> QED
      BY <3>1, <3>2, <3>3
  <2>6. RowEveryDay'
    BY <2>1, <2>5 DEF RowEveryDay
  <2> QED
    BY <2>2, <2>3, <2>4, <2>6 DEF RemindInv
<1>11. CASE UNCHANGED vars
  BY <1>11 DEF vars, RemindInv, LookedAtDaily, RowEveryDay, RowIsServed, ProcsInTime, Pending,
     AtWork, AllReminded
<1> QED
  BY <1>1, <1>2, <1>3, <1>4, <1>5, <1>6, <1>7, <1>8, <1>9, <1>10, <1>11
  DEF Next, CheckStep, RunnerStep

\* On a day without a failure everybody is reminded, once the hour of the job
\* is over, unless an admin has the day's row and is still at it.
THEOREM AllAreReminded == Spec => []EveryoneReminded
<1>1. ASSUME Init PROVE RemindInv
  <2>1. ASSUME NEW d \in Days PROVE ~(d < day \/ (d = day /\ DailyHour < hour))
    BY <1>1, CronAssumption DEF Init, Days, Hours
  <2>2. LookedAtDaily /\ RowIsServed /\ ProcsInTime
    BY <1>1 DEF Init, LookedAtDaily, RowIsServed, ProcsInTime, AtWork, Runners, Days
  <2> QED
    BY <2>1, <2>2 DEF RemindInv, RowEveryDay
<1>2. TypeOK /\ RemindInv => EveryoneReminded
  <2> SUFFICES ASSUME TypeOK, RemindInv, NEW d \in Days \ troubled,
                      d < day \/ (d = day /\ DailyHour < hour),
                      ~AllReminded(d)
               PROVE  \E a \in Admins : AtWork(a, d)
    BY DEF EveryoneReminded, AllReminded
  <2>1. PICK r \in Runners : Pending(r, d)
    BY DEF RemindInv, RowEveryDay, RowIsServed
  <2>2. AtWork(r, d)
    BY <2>1 DEF Pending
  <2>3. r \notin Procs
    BY <2>2, CronAssumption DEF RemindInv, ProcsInTime, TypeOK, Days, Hours
  <2> QED
    BY <2>1, <2>2, <2>3 DEF Runners
<1>3. DailyInv => TypeOK
  BY DEF DailyInv
<1> QED
  BY <1>1, <1>2, <1>3, DailyInvariant, StepRemind, PTL DEF Spec
=============================================================================
