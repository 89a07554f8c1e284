------------------------- MODULE DeliverabilityProofs -------------------------
(***************************************************************************)
(* Types, the bound on late mails, the events that reach task_queue and    *)
(* the cause of a suppression, for any number of mails, events and         *)
(* goroutines and any faults.                                              *)
(***************************************************************************)
EXTENDS Deliverability, TLAPS

\* A message can be received as often as its count allows.
Countable ==
    \A e \in Events : /\ message[e].place = "none" => message[e].receives = 0
                      /\ message[e].place = "visible" => message[e].receives < MaxReceives

\* What a poller and a worker have in hand is something they can work on.
PollerHolds == \A p \in Pollers :
    poller[p].pc # "poll" => /\ poller[p].event \in Events
                             /\ poller[p].receive \in 1..MaxReceives
WorkerHolds == \A w \in Workers :
    /\ worker[w].pc # "idle" => worker[w].task \in Tasks
    /\ worker[w].pc = "mark" => worker[w].task \in Reports

QueueTyped ==
    /\ stage \in [Tasks -> {"none", "waiting", "running", "done", "dead"}]
    /\ tries \in [Tasks -> 0..MaxAttempts]
    /\ sends \in [Tasks -> Nat]

Types == TypeOK /\ Countable /\ PollerHolds /\ WorkerHolds

USE DEF accountVars, queueVars, Fault, Poll, ToDelete, Report, Goto, Idle,
        IdlePoller, IdleWorker

-----------------------------------------------------------------------------
(* Types                                                                   *)

LEMMA TypesInit == ASSUME Init PROVE Types
<1>1. TypeOK
  <2>1. message \in [Events -> Messages]
    BY DeliverabilityAssumption DEF Init, Messages, Kinds, Places
  <2>2. poller \in [Pollers -> Pollings] /\ worker \in [Workers -> Workings]
    BY DeliverabilityAssumption DEF Init, Pollings, Workings
  <2>3. QueueTyped
    BY DeliverabilityAssumption DEF Init, Queue!Init, QueueTyped
  <2>4. faults \in 0..MaxFaults /\ late \in [Workers -> Nat]
    BY DeliverabilityAssumption DEF Init
  <2> QED BY <2>1, <2>2, <2>3, <2>4 DEF Init, TypeOK, QueueTyped, Statuses
<1> QED BY <1>1 DEF Init, Types, Countable, PollerHolds, WorkerHolds

\* What the queue may do to a task keeps its types.
LEMMA QueueTypes ==
  ASSUME NEW t \in Tasks, TypeOK,
         \/ Queue!Submit(t) \/ Queue!Start(t) \/ Queue!Send(t)
         \/ Queue!Succeed(t) \/ Queue!Retry(t) \/ Queue!Bury(t)
  PROVE  QueueTyped'
  BY DeliverabilityAssumption
     DEF TypeOK, QueueTyped, Queue!Submit, Queue!Start, Queue!Send, Queue!Succeed, Queue!Retry, Queue!Bury

LEMMA TypesNext == ASSUME Types, [Next]_vars PROVE Types'
<1> USE DeliverabilityAssumption
        DEF Types, TypeOK, Countable, PollerHolds, WorkerHolds,
            Statuses, Messages, Kinds, Places, Pollings, Workings
<1>1. CASE Account
  <2>1. CASE Register
    BY <2>1 DEF Register
  <2>2. CASE Purge
    BY <2>2 DEF Purge
  <2>3. CASE EditRead
    BY <2>3 DEF EditRead
  <2>4. CASE EditWrite
    BY <2>4 DEF EditWrite, StatusAfterEdit
  <2> QED BY <1>1, <2>1, <2>2, <2>3, <2>4 DEF Account
<1>2. ASSUME NEW e \in Events, Publish(e) PROVE Types'
  BY <1>2 DEF Publish
<1>3. ASSUME NEW e \in Events, Expire(e) PROVE Types'
  BY <1>3 DEF Expire
<1>4. ASSUME NEW p \in Pollers, NEW e \in Events, Receive(p, e) PROVE Types'
  BY <1>4 DEF Receive
<1>5. ASSUME NEW p \in Pollers, Insert(p) PROVE Types'
  <2>1. Report(p) \in Tasks
    BY <1>5 DEF Insert, Tasks, Reports
  <2>2. QueueTyped'
    BY <1>5, <2>1, QueueTypes DEF Insert
  <2> QED BY <1>5, <2>2 DEF Insert, QueueTyped
<1>6. ASSUME NEW p \in Pollers, InsertFails(p) PROVE Types'
  <2>1. Report(p) \in Tasks
    BY <1>6 DEF InsertFails, Tasks, Reports
  <2>2. QueueTyped'
    BY <1>6, <2>1, QueueTypes DEF InsertFails, QueueTyped
  <2> QED BY <1>6, <2>2 DEF InsertFails, QueueTyped
<1>7. ASSUME NEW p \in Pollers,
             Skip(p) \/ Delete(p) \/ DeleteFails(p) \/ PollerStops(p)
      PROVE Types'
  <2>1. CASE Skip(p)
    <3>1. CASE ToDelete(p)
      BY <2>1, <3>1 DEF Skip
    <3>2. CASE Poll(p)
      BY <2>1, <3>2 DEF Skip
    <3> QED BY <2>1, <3>1, <3>2 DEF Skip
  <2>2. CASE Delete(p)
    <3>1. /\ message' \in [Events -> Messages]
          /\ \A e \in Events : /\ message'[e].receives = message[e].receives
                              /\ message'[e].place \in {message[e].place, "gone"}
      BY <2>2 DEF Delete
    <3>2. poller' \in [Pollers -> Pollings] /\ PollerHolds'
      BY <2>2 DEF Delete
    <3>3. Countable'
      BY <3>1
    <3>4. UNCHANGED <<address, edit, suppressed, late, stage, tries, sends, worker, faults>>
      BY <2>2 DEF Delete
    <3> HIDE DEF Countable, PollerHolds
    <3> QED BY <3>1, <3>2, <3>3, <3>4
  <2>3. CASE DeleteFails(p)
    BY <2>3 DEF DeleteFails
  <2>4. CASE PollerStops(p)
    BY <2>4 DEF PollerStops
  <2> QED BY <1>7, <2>1, <2>2, <2>3, <2>4
<1>8. ASSUME NEW m \in Mails, Enqueue(m) PROVE Types'
  <2>1. m \in Tasks
    BY DEF Tasks
  <2>2. QueueTyped'
    BY <1>8, <2>1, QueueTypes DEF Enqueue
  <2> QED BY <1>8, <2>2 DEF Enqueue, QueueTyped
<1>9. ASSUME NEW w \in Workers, NEW t \in Tasks, Take(w, t) PROVE Types'
  <2>1. QueueTyped'
    BY <1>9, QueueTypes DEF Take
  <2> QED BY <1>9, <2>1 DEF Take, Handler, QueueTyped
<1>10. ASSUME NEW w \in Workers, Check(w) \/ HandlerFails(w) \/ WorkerStops(w)
       PROVE Types'
  <2>1. CASE Check(w)
    BY <2>1 DEF Check
  <2>2. CASE HandlerFails(w)
    BY <2>2 DEF HandlerFails
  <2>3. CASE WorkerStops(w)
    BY <2>3 DEF WorkerStops
  <2> QED BY <1>10, <2>1, <2>2, <2>3
<1>11. ASSUME NEW w \in Workers, Send(w) PROVE Types'
  <2>1. worker[w].task \in Tasks
    BY <1>11 DEF Send
  <2>2. late' \in [Workers -> Nat]
    BY <1>11 DEF Send, Late
  <2>3. QueueTyped'
    BY <1>11, <2>1, QueueTypes DEF Send
  <2>4. faults' \in 0..MaxFaults
    BY <1>11 DEF Send
  <2>5. worker' \in [Workers -> Workings] /\ WorkerHolds'
    <3>1. CASE Goto(w, "ok")
      BY <2>1, <3>1
    <3>2. CASE Goto(w, "err")
      BY <2>1, <3>2
    <3> QED BY <1>11, <3>1, <3>2 DEF Send
  <2> QED BY <1>11, <2>2, <2>3, <2>4, <2>5 DEF Send, QueueTyped
<1>12. ASSUME NEW w \in Workers, Mark(w) PROVE Types'
  <2>1. address' \in Statuses \union {"none"} /\ suppressed' \in BOOLEAN
    BY <1>12 DEF Mark, MarkEmailStatus, Verdict
  <2> QED BY <1>12, <2>1 DEF Mark
<1>13. ASSUME NEW w \in Workers, Record(w) PROVE Types'
  <2>1. worker[w].task \in Tasks
    BY <1>13 DEF Record
  <2>2. QueueTyped'
    BY <1>13, <2>1, QueueTypes DEF Record
  <2> QED BY <1>13, <2>2 DEF Record, QueueTyped
<1>14. CASE UNCHANGED vars
  BY <1>14 DEF vars
<1> QED BY <1>1, <1>2, <1>3, <1>4, <1>5, <1>6, <1>7, <1>8, <1>9, <1>10, <1>11,
           <1>12, <1>13, <1>14 DEF Next, PollerWork, WorkerWork

\* Every variable keeps its type.
THEOREM TypeCorrect == Spec => []TypeOK
<1>1. Types => TypeOK
  BY DEF Types
<1> QED BY <1>1, TypesInit, TypesNext, PTL DEF Spec

-----------------------------------------------------------------------------
(* Late mails                                                              *)

\* A suppressed address stays so while its row is there; until then no mail is
\* late, and a worker past the check has had none yet: it cannot pass again.
LateInv ==
    /\ suppressed => ~Deliverable
    /\ \A w \in Workers :
          /\ late[w] <= 1
          /\ ~suppressed => late[w] = 0
          /\ worker[w].pc = "send" /\ worker[w].task \notin Farewells => late[w] = 0

LEMMA LateInit == ASSUME Init PROVE LateInv
  BY DEF Init, LateInv

LEMMA LateNext == ASSUME Types, LateInv, [Next]_vars PROVE LateInv'
<1> USE DEF Types, TypeOK, LateInv, Deliverable
<1>1. CASE UNCHANGED <<address, suppressed, late, worker>>
  BY <1>1
<1>2. CASE Account
  <2>1. CASE Register
    BY <2>1 DEF Register
  <2>2. CASE Purge
    BY <2>2 DEF Purge
  <2>3. CASE EditRead
    BY <2>3 DEF EditRead
  <2>4. CASE EditWrite
    BY <2>4 DEF EditWrite, StatusAfterEdit
  <2> QED BY <1>2, <2>1, <2>2, <2>3, <2>4 DEF Account
<1>3. ASSUME NEW w \in Workers, NEW t \in Tasks, Take(w, t) PROVE LateInv'
  <2>1. worker'[w].pc = "send" => worker'[w].task \in Farewells
    BY <1>3 DEF Take, Handler, Workings
  <2> QED BY <1>3, <2>1 DEF Take, Workings
<1>4. ASSUME NEW w \in Workers, Check(w) PROVE LateInv'
  <2>1. worker'[w].pc = "send" => ~suppressed
    BY <1>4 DEF Check, Workings
  <2> QED BY <1>4, <2>1 DEF Check, Workings
<1>5. ASSUME NEW w \in Workers, Send(w) PROVE LateInv'
  <2>1. worker'[w].pc # "send" /\ \A v \in Workers \ {w} : worker'[v] = worker[v]
    BY <1>5 DEF Send, Workings
  <2>2. CASE suppressed /\ worker[w].task \notin Farewells
    <3>1. late[w] = 0
      BY <1>5, <2>2 DEF Send
    <3>2. late' = [late EXCEPT ![w] = @ + 1]
      BY <1>5, <2>2 DEF Send, Late
    <3> QED BY <1>5, <2>1, <2>2, <3>1, <3>2 DEF Send
  <2>3. CASE ~(suppressed /\ worker[w].task \notin Farewells)
    BY <1>5, <2>1, <2>3 DEF Send, Late
  <2> QED BY <2>2, <2>3
<1>6. ASSUME NEW w \in Workers, Mark(w) PROVE LateInv'
  <2>1. worker'[w].pc # "send" /\ \A v \in Workers \ {w} : worker'[v] = worker[v]
    BY <1>6 DEF Mark, Workings
  <2>2. (suppressed' => address' \in {"bounced", "complained"}) /\ (suppressed => suppressed')
    BY <1>6 DEF Mark, MarkEmailStatus, Verdict, Statuses
  <2>3. late' = late
    BY <1>6 DEF Mark
  <2> HIDE DEF TypeOK
  <2> QED BY <2>1, <2>2, <2>3
<1>7. ASSUME NEW w \in Workers, HandlerFails(w) \/ Record(w) \/ WorkerStops(w)
      PROVE LateInv'
  <2>1. UNCHANGED accountVars
    BY <1>7 DEF HandlerFails, Record, WorkerStops
  <2>2. worker'[w].pc # "send" /\ \A v \in Workers \ {w} : worker'[v] = worker[v]
    BY <1>7 DEF HandlerFails, Record, WorkerStops, Workings
  <2> QED BY <2>1, <2>2
<1>8. ASSUME NEW e \in Events, Publish(e) \/ Expire(e)
      PROVE UNCHANGED <<address, suppressed, late, worker>>
  BY <1>8 DEF Publish, Expire
<1>9. ASSUME NEW p \in Pollers, PollerWork(p) \/ PollerStops(p)
      PROVE UNCHANGED <<address, suppressed, late, worker>>
  BY <1>9 DEF PollerWork, Receive, Insert, InsertFails, Skip, Delete, DeleteFails, PollerStops
<1>10. ASSUME NEW m \in Mails, Enqueue(m)
       PROVE UNCHANGED <<address, suppressed, late, worker>>
  BY <1>10 DEF Enqueue
<1>11. CASE UNCHANGED vars
  BY <1>1, <1>11 DEF vars
<1> QED BY <1>1, <1>2, <1>3, <1>4, <1>5, <1>6, <1>7, <1>8, <1>9, <1>10, <1>11
        DEF Next, WorkerWork

\* After an event has been handled, a worker sends at most one mail more: the
\* one it was past the check with.
THEOREM LateBounded == Spec => []LateMailsBounded
<1>1. Types /\ LateInv => LateMailsBounded
  BY DEF LateInv, LateMailsBounded
<1> QED BY <1>1, TypesInit, TypesNext, LateInit, LateNext, PTL DEF Spec

-----------------------------------------------------------------------------
(* Events and what comes of them                                           *)

\* A task and a message, once there, stay, and a message keeps its kind.
Grown ==
    /\ \A t \in Tasks : stage[t] # "none" => stage'[t] # "none"
    /\ \A e \in Events : message[e].place # "none" =>
          message'[e].place # "none" /\ message'[e].kind = message[e].kind

\* Tasks are about messages that exist; a poller about to delete a message has
\* inserted its task.
EventInv ==
    /\ \A p \in Pollers : poller[p].pc # "poll" =>
          /\ message[poller[p].event].place # "none"
          /\ poller[p].pc = "delete" /\ message[poller[p].event].kind \in Handled =>
                stage[Report(p)] # "none"
    /\ \A w \in Workers : worker[w].pc = "mark" => stage[worker[w].task] # "none"
    /\ \A e \in Events, k \in 1..MaxReceives :
          stage[<<e, k>>] # "none" => message[e].place # "none"
    /\ NoEventLost

\* The event behind a suppression has been published.
CauseInv ==
    /\ address = "bounced" =>
          \E e \in Events : message[e].kind = "bounce" /\ message[e].place # "none"
    /\ address = "complained" =>
          \E e \in Events : message[e].kind = "complaint" /\ message[e].place # "none"

LEMMA EventInit == ASSUME Init PROVE EventInv /\ CauseInv
  BY DEF Init, Queue!Init, EventInv, CauseInv, NoEventLost, Reports, Tasks

LEMMA QueueGrows ==
  ASSUME NEW t \in Tasks, TypeOK,
         \/ Queue!Submit(t) \/ Queue!Start(t) \/ Queue!Send(t)
         \/ Queue!Succeed(t) \/ Queue!Retry(t) \/ Queue!Bury(t)
  PROVE  \A u \in Tasks : stage[u] # "none" => stage'[u] # "none"
  BY DEF TypeOK, Queue!Submit, Queue!Start, Queue!Send, Queue!Succeed, Queue!Retry, Queue!Bury

\* What a step does to tasks, messages, pollers and workers, as far as it
\* matters here.
TasksCome == \A t \in Tasks : stage'[t] # "none" =>
    \/ stage[t] # "none" \/ t \in Mails
    \/ \E p \in Pollers : poller[p].pc = "insert" /\ t = Report(p)
MessagesGo == \A e \in Events : message'[e].place = "gone" =>
    \/ message[e].place = "gone"
    \/ \E p \in Pollers : poller[p].pc = "delete" /\ poller[p].event = e
PollersMove == \A p \in Pollers :
    \/ poller'[p] = poller[p]
    \/ poller'[p].pc = "poll"
    \/ poller'[p].pc = "insert" /\ message'[poller'[p].event].place = "held"
    \/ /\ poller[p].pc = "insert" /\ poller'[p].pc = "delete"
       /\ poller'[p].event = poller[p].event /\ poller'[p].receive = poller[p].receive
       /\ message[poller[p].event].kind \in Handled => stage'[Report(p)] # "none"
WorkersMove == \A w \in Workers : worker'[w].pc = "mark" =>
    worker'[w] = worker[w] \/ stage'[worker'[w].task] # "none"

Moves == Grown /\ TasksCome /\ MessagesGo /\ PollersMove /\ WorkersMove

LEMMA StepMoves == ASSUME Types, [Next]_vars PROVE Moves
<1> USE DEF Moves, Grown, TasksCome, MessagesGo, PollersMove, WorkersMove
<1>t. /\ message \in [Events -> Messages]
      /\ poller \in [Pollers -> Pollings]
      /\ worker \in [Workers -> Workings]
      /\ stage \in [Tasks -> {"none", "waiting", "running", "done", "dead"}]
      /\ PollerHolds /\ WorkerHolds
  BY DEF Types, TypeOK
<1>1. ASSUME UNCHANGED <<stage, message, poller>>,
             \A w \in Workers : worker'[w].pc = "mark" => worker'[w] = worker[w]
      PROVE  Moves
  BY <1>1
<1>2. CASE Account
  BY <1>1, <1>2 DEF Account, Register, Purge, EditRead, EditWrite
<1>3. ASSUME NEW e \in Events, Publish(e) \/ Expire(e) PROVE Moves
  <2>1. UNCHANGED <<stage, poller, worker>>
    BY <1>3 DEF Publish, Expire
  <2>2. CASE Publish(e)
    BY <1>t, <2>1, <2>2 DEF Publish, Messages
  <2>3. CASE Expire(e)
    BY <1>t, <2>1, <2>3 DEF Expire, Messages
  <2> QED BY <1>3, <2>2, <2>3
<1>4. ASSUME NEW p \in Pollers, NEW e \in Events, Receive(p, e) PROVE Moves
  BY <1>t, <1>4 DEF Receive, Messages, Pollings
<1>5. ASSUME NEW p \in Pollers, Insert(p) \/ InsertFails(p) PROVE Moves
  <2>1. Report(p) \in Tasks /\ poller[p].pc = "insert" /\ UNCHANGED <<message, worker>>
    BY <1>t, <1>5 DEF Insert, InsertFails, PollerHolds, Tasks, Reports
  <2>2. CASE Queue!Submit(Report(p))
    <3>1. /\ stage'[Report(p)] = "waiting"
          /\ \A t \in Tasks \ {Report(p)} : stage'[t] = stage[t]
      BY <1>t, <2>1, <2>2 DEF Queue!Submit
    <3>2. CASE ToDelete(p)
      BY <1>t, <2>1, <3>1, <3>2 DEF Pollings
    <3>3. CASE Poll(p)
      BY <1>t, <2>1, <3>1, <3>3 DEF Pollings
    <3> QED BY <1>5, <3>2, <3>3 DEF Insert, InsertFails
  <2>3. CASE UNCHANGED queueVars /\ Poll(p)
    BY <1>t, <2>1, <2>3 DEF Pollings
  <2> QED BY <1>5, <2>2, <2>3 DEF Insert, InsertFails
<1>6. ASSUME NEW p \in Pollers, Skip(p) PROVE Moves
  <2>1. UNCHANGED <<stage, message, worker>> /\ poller[p].pc = "insert"
    BY <1>6 DEF Skip
  <2>2. CASE ToDelete(p) /\ message[poller[p].event].kind = "other"
    BY <1>t, <2>1, <2>2 DEF Pollings, Handled
  <2>3. CASE Poll(p)
    BY <1>t, <2>1, <2>3 DEF Pollings
  <2> QED BY <1>6, <2>2, <2>3 DEF Skip
<1>7. ASSUME NEW p \in Pollers, Delete(p) PROVE Moves
  <2>1. UNCHANGED <<stage, worker>> /\ poller'[p].pc = "poll" /\ poller[p].pc = "delete"
    BY <1>t, <1>7 DEF Delete
  <2>2. \A q \in Pollers \ {p} : poller'[q] = poller[q]
    BY <1>t, <1>7 DEF Delete
  <2>3. \A e \in Events : /\ message'[e].kind = message[e].kind
                          /\ message[e].place # "none" => message'[e].place # "none"
                          /\ e # poller[p].event => message'[e].place = message[e].place
    BY <1>t, <1>7 DEF Delete, Messages
  <2> QED BY <2>1, <2>2, <2>3
<1>8. ASSUME NEW p \in Pollers, DeleteFails(p) \/ PollerStops(p) PROVE Moves
  BY <1>t, <1>8 DEF DeleteFails, PollerStops
<1>9. ASSUME NEW m \in Mails, Enqueue(m) PROVE Moves
  <2>1. m \in Tasks
    BY DEF Tasks
  <2> QED BY <1>t, <1>9, <2>1 DEF Enqueue, Queue!Submit
<1>10. ASSUME NEW w \in Workers, NEW t \in Tasks, Take(w, t) PROVE Moves
  BY <1>t, <1>10 DEF Take, Queue!Start, Workings
<1>11. ASSUME NEW w \in Workers,
              Check(w) \/ Mark(w) \/ HandlerFails(w) \/ WorkerStops(w)
       PROVE Moves
  <2>1. UNCHANGED <<stage, message, poller>>
    BY <1>11 DEF Check, Mark, HandlerFails, WorkerStops
  <2>2. worker'[w].pc # "mark" /\ \A v \in Workers \ {w} : worker'[v] = worker[v]
    BY <1>t, <1>11 DEF Check, Mark, HandlerFails, WorkerStops, Workings
  <2> QED BY <1>1, <2>1, <2>2
<1>12. ASSUME NEW w \in Workers, Send(w) \/ Record(w) PROVE Moves
  <2>1. UNCHANGED <<message, poller>> /\ worker[w].task \in Tasks
    BY <1>t, <1>12 DEF Send, Record, WorkerHolds
  <2>2. worker'[w].pc # "mark" /\ \A v \in Workers \ {w} : worker'[v] = worker[v]
    BY <1>t, <1>12 DEF Send, Record, Workings
  <2>3. \A t \in Tasks : stage'[t] # "none" <=> stage[t] # "none"
    BY <1>t, <1>12, <2>1
       DEF Send, Record, Queue!Send, Queue!Succeed, Queue!Retry, Queue!Bury
  <2> QED BY <2>1, <2>2, <2>3
<1>13. CASE UNCHANGED vars
  BY <1>1, <1>13 DEF vars
<1> QED BY <1>2, <1>3, <1>4, <1>5, <1>6, <1>7, <1>8, <1>9, <1>10, <1>11, <1>12, <1>13
        DEF Next, PollerWork, WorkerWork

LEMMA EventNext == ASSUME Types, Types', EventInv, Moves PROVE EventInv'
<1> USE DEF Moves, Grown
<1>t. /\ PollerHolds /\ WorkerHolds
      /\ \A e \in Events, k \in 1..MaxReceives :
            <<e, k>> \in Tasks /\ <<e, k>> \in Reports /\ <<e, k>> \notin Mails
  BY DeliverabilityAssumption DEF Types, Tasks, Reports
<1>1. ASSUME NEW p \in Pollers, poller'[p].pc # "poll"
      PROVE  /\ message'[poller'[p].event].place # "none"
             /\ poller'[p].pc = "delete" /\ message'[poller'[p].event].kind \in Handled =>
                   stage'[<<poller'[p].event, poller'[p].receive>>] # "none"
  <2>1. CASE poller'[p] = poller[p]
    BY <1>t, <1>1, <2>1 DEF EventInv, PollerHolds
  <2>2. CASE poller'[p].pc = "insert" /\ message'[poller'[p].event].place = "held"
    BY <2>2
  <2>3. CASE /\ poller[p].pc = "insert" /\ poller'[p].pc = "delete"
             /\ poller'[p].event = poller[p].event /\ poller'[p].receive = poller[p].receive
             /\ message[poller[p].event].kind \in Handled => stage'[Report(p)] # "none"
    BY <1>t, <2>3 DEF EventInv, PollerHolds
  <2> QED BY <1>1, <2>1, <2>2, <2>3 DEF PollersMove
<1>2. ASSUME NEW w \in Workers, worker'[w].pc = "mark"
      PROVE  stage'[worker'[w].task] # "none"
  BY <1>t, <1>2 DEF WorkersMove, EventInv, WorkerHolds
<1>3. ASSUME NEW e \in Events, NEW k \in 1..MaxReceives, stage'[<<e, k>>] # "none"
      PROVE  message'[e].place # "none"
  <2>1. CASE stage[<<e, k>>] # "none"
    BY <2>1 DEF EventInv
  <2>2. ASSUME NEW p \in Pollers, poller[p].pc = "insert", <<e, k>> = Report(p)
        PROVE  message'[e].place # "none"
    BY <2>2 DEF EventInv
  <2> QED BY <1>t, <1>3, <2>1, <2>2 DEF TasksCome
<1>4. ASSUME NEW e \in Events, message'[e].place = "gone", message'[e].kind \in Handled
      PROVE  \E r \in Reports : r[1] = e /\ stage'[r] # "none"
  <2>1. CASE message[e].place = "gone"
    <3>1. PICK r \in Reports : r[1] = e /\ stage[r] # "none"
      BY <1>4, <2>1 DEF EventInv, NoEventLost
    <3> QED BY <3>1 DEF Tasks
  <2>2. ASSUME NEW p \in Pollers, poller[p].pc = "delete", poller[p].event = e
        PROVE  \E r \in Reports : r[1] = e /\ stage'[r] # "none"
    <3>1. message[e].kind \in Handled
      BY <1>4, <2>2 DEF EventInv
    <3>2. stage[Report(p)] # "none" /\ Report(p) \in Reports
      BY <1>t, <2>2, <3>1 DEF EventInv, PollerHolds
    <3>3. stage'[Report(p)] # "none" /\ Report(p)[1] = e
      BY <2>2, <3>2 DEF Tasks
    <3> QED BY <3>2, <3>3
  <2> QED BY <1>4, <2>1, <2>2 DEF MessagesGo
<1> QED BY <1>1, <1>2, <1>3, <1>4 DEF EventInv, NoEventLost

\* A bounce or complaint leaves SQS only when its task is there.
THEOREM EventsKept == Spec => []NoEventLost
<1>1. Types /\ Types' /\ EventInv /\ [Next]_vars => EventInv'
  BY StepMoves, EventNext
<1>2. EventInv => NoEventLost
  BY DEF EventInv
<1> QED BY <1>1, <1>2, TypesInit, TypesNext, EventInit, PTL DEF Spec

LEMMA CauseNext ==
  ASSUME Types, EventInv, CauseInv, [Next]_vars
  PROVE  CauseInv'
<1>1. Grown
  BY StepMoves DEF Moves
<1>2. ASSUME NEW w \in Workers, Mark(w) PROVE CauseInv'
  <2> DEFINE e == worker[w].task[1]
  <2>1. e \in Events /\ message[e].place # "none"
    <3>1. worker[w].task \in Reports /\ stage[worker[w].task] # "none"
      BY <1>2 DEF Mark, EventInv, Types, WorkerHolds
    <3> QED BY <3>1 DEF EventInv, Reports
  <2>2. message'[e].place # "none" /\ message'[e].kind = message[e].kind
    BY <1>1, <2>1 DEF Grown
  <2>3. address' = address \/ (message[e].kind = "bounce" /\ address' = "bounced")
           \/ (message[e].kind = "complaint" /\ address' = "complained")
    BY <1>2 DEF Mark, MarkEmailStatus, Verdict
  <2> HIDE DEF e
  <2> QED BY <1>1, <2>1, <2>2, <2>3 DEF CauseInv, Grown
<1>3. ASSUME address' \in {address, "active", "none"} PROVE CauseInv'
  BY <1>1, <1>3 DEF CauseInv, Grown
<1>4. CASE Account
  BY <1>3, <1>4 DEF Account, Register, Purge, EditRead, EditWrite, StatusAfterEdit
<1>5. ASSUME NEW e \in Events, Publish(e) \/ Expire(e) PROVE address' = address
  BY <1>5 DEF Publish, Expire
<1>6. ASSUME NEW p \in Pollers, PollerWork(p) \/ PollerStops(p) PROVE address' = address
  BY <1>6 DEF PollerWork, Receive, Insert, InsertFails, Skip, Delete, DeleteFails, PollerStops
<1>7. ASSUME NEW m \in Mails, Enqueue(m) PROVE address' = address
  BY <1>7 DEF Enqueue
<1>8. ASSUME NEW w \in Workers,
             \/ \E t \in Tasks : Take(w, t)
             \/ Check(w) \/ Send(w) \/ HandlerFails(w) \/ Record(w) \/ WorkerStops(w)
      PROVE  address' = address
  BY <1>8 DEF Take, Check, Send, HandlerFails, Record, WorkerStops
<1> QED BY <1>2, <1>3, <1>4, <1>5, <1>6, <1>7, <1>8 DEF Next, WorkerWork, vars

\* Only a permanent bounce or a complaint suppresses an address.
THEOREM SuppressionHasCause == Spec => []SuppressedForCause
<1>1. Types /\ Types' /\ EventInv /\ [Next]_vars => EventInv'
  BY StepMoves, EventNext
<1>2. CauseInv => SuppressedForCause
  BY DEF CauseInv, SuppressedForCause
<1> QED BY <1>1, <1>2, TypesInit, TypesNext, EventInit, CauseNext, PTL DEF Spec
=============================================================================
