---------------------------- MODULE Deliverability ----------------------------
(***************************************************************************)
(* Mails to one address and what comes back: the mail handlers and         *)
(* sendIfDeliverable, the bounces and complaints that SES reports through  *)
(* an SQS queue, the poller that turns them into tasks                     *)
(* (worker.Pool.PollSESEvents), and the handlers that suppress the address *)
(* (MarkEmailStatus).                                                      *)
(*                                                                         *)
(* Jobs travel in task_queue, of which this module knows what RetryQueue   *)
(* promises; TaskQueue implements that.  SQS and SES are external: a       *)
(* message may be delivered again whenever its visibility timeout ends,    *)
(* messages overtake each other, and after MaxReceives deliveries a        *)
(* message goes to the dead-letter queue.                                  *)
(*                                                                         *)
(* ReceiveMessage returns up to ten messages, which are processed one      *)
(* after the other.  A batch is modelled as its messages received one at a *)
(* time: those that wait in a batch can do nothing but expire.             *)
(***************************************************************************)
EXTENDS Naturals

CONSTANTS Mails,        \* mail tasks for the address
          Farewells,    \* those of job type email:account_deleted
          Events,       \* notifications that SES may publish
          Pollers,      \* PollSESEvents goroutines, one per process
          Workers,      \* worker goroutines, one per process
          MaxReceives,  \* maxReceiveCount of the SQS queue
          MaxAttempts,  \* column max_attempts
          Faults,       \* which of FaultKinds may happen
          MaxFaults,    \* bound: how many faults happen
          Nothing       \* what an idle goroutine holds

\* A statement of the database or a mail fails, an SQS request fails, the
\* process dies.
FaultKinds == {"db", "mail", "sqs", "crash"}

Reports == Events \X (1..MaxReceives)
Tasks   == Mails \union Reports

ASSUME DeliverabilityAssumption ==
    /\ Farewells \subseteq Mails
    /\ Mails \intersect Reports = {}
    /\ MaxReceives \in Nat \ {0}
    /\ MaxAttempts \in Nat \ {0}
    /\ Faults \subseteq FaultKinds
    /\ MaxFaults \in Nat
    /\ Nothing \notin Tasks \union Events

VARIABLES
    address,    \* email_status of the app_user row; "none" without a row
    edit,       \* the email_status a PATCH of the profile has read, or "idle"
    message,    \* message[e]: the SQS message about event e
    poller,     \* poller[p]: what goroutine p does with which message
    stage,      \* task_queue, as in RetryQueue
    tries,
    sends,      \* sends[t]: mails that SES has accepted for task t
    worker,     \* worker[w]: where the handler that w runs is
    faults,     \* history: faults so far
    suppressed, \* history: an event has been handled for the present row
    late        \* history: late[w]: mails of w accepted since then

queueVars == <<stage, tries, sends>>
vars == <<address, edit, message, poller, queueVars, worker, faults, suppressed, late>>

Queue == INSTANCE RetryQueue

Statuses == {"active", "bounced", "complained"}
\* SES event types; a bounce is permanent or transient; "other" is a rejection,
\* a rendering failure or unknown; "garbled" is a body that does not decode.
Kinds    == {"bounce", "transient", "complaint", "other", "garbled"}
Places   == {"none", "visible", "held", "gone", "dlq"}

Messages    == [kind : Kinds, place : Places, receives : 0..MaxReceives]
Pollings    == [pc : {"poll", "insert", "delete"}, event : Events \union {Nothing},
                receive : 0..MaxReceives]
Workings    == [pc : {"idle", "check", "send", "mark", "ok", "err"},
                task : Tasks \union {Nothing}]
IdlePoller  == [pc |-> "poll", event |-> Nothing, receive |-> 0]
IdleWorker  == [pc |-> "idle", task |-> Nothing]

\* A fault of kind k.
Fault(k) == k \in Faults /\ faults < MaxFaults /\ faults' = faults + 1

Init == /\ address = "none"
        /\ edit = "idle"
        /\ message = [e \in Events |-> [kind |-> "other", place |-> "none", receives |-> 0]]
        /\ poller = [p \in Pollers |-> IdlePoller]
        /\ Queue!Init
        /\ worker = [w \in Workers |-> IdleWorker]
        /\ faults = 0
        /\ suppressed = FALSE
        /\ late = [w \in Workers |-> 0]

-----------------------------------------------------------------------------
(* The account                                                             *)

accountVars == <<address, edit, suppressed, late>>

\* INSERT INTO app_user: email_status DEFAULT 'active'.
Register ==
    /\ address = "none"
    /\ address' = "active"
    /\ UNCHANGED <<edit, message, poller, queueVars, worker, suppressed, late, faults>>

\* PurgeDeletedUsers.  An edit in progress will find no row.
Purge ==
    /\ address # "none"
    /\ address' = "none"
    /\ edit' = "idle"
    /\ suppressed' = FALSE
    /\ late' = [w \in Workers |-> 0]
    /\ UNCHANGED <<message, poller, queueVars, worker, faults>>

\* The middleware reads the whole row for a PATCH of the profile.
EditRead ==
    /\ edit = "idle"
    /\ address # "none"
    /\ edit' = address
    /\ UNCHANGED <<address, message, poller, queueVars, worker, suppressed, late, faults>>

\* Mutant: the UPDATE has every column of the struct.
StatusWritten == edit

\* UserModel.Update, whose version check MarkEmailStatus does not trip, leaves
\* email_status out of its SET list.
StatusAfterEdit == address

EditWrite ==
    /\ edit # "idle"
    /\ address' = StatusAfterEdit
    /\ edit' = "idle"
    /\ UNCHANGED <<message, poller, queueVars, worker, suppressed, late, faults>>

-----------------------------------------------------------------------------
(* SES, SNS and SQS                                                        *)

\* An event follows a mail that was accepted.
Publish(e) ==
    /\ message[e].place = "none"
    /\ \E m \in Mails : sends[m] > 0
    /\ \E k \in Kinds : message' = [message EXCEPT ![e].kind = k, ![e].place = "visible"]
    /\ UNCHANGED <<accountVars, poller, queueVars, worker, faults>>

\* The visibility timeout of a delivery ends.
Expire(e) ==
    /\ message[e].place = "held"
    /\ message' = [message EXCEPT ![e].place =
                      IF message[e].receives < MaxReceives THEN "visible" ELSE "dlq"]
    /\ UNCHANGED <<accountVars, poller, queueVars, worker, faults>>

-----------------------------------------------------------------------------
(* PollSESEvents                                                           *)

Receive(p, e) ==
    /\ poller[p].pc = "poll"
    /\ message[e].place = "visible"
    /\ message' = [message EXCEPT ![e].place = "held", ![e].receives = @ + 1]
    /\ poller' = [poller EXCEPT ![p] = [pc |-> "insert", event |-> e,
                                        receive |-> message[e].receives + 1]]
    /\ UNCHANGED <<accountVars, queueVars, worker, faults>>

Poll(p)     == poller' = [poller EXCEPT ![p] = IdlePoller]
ToDelete(p) == poller' = [poller EXCEPT ![p].pc = "delete"]
Report(p)   == <<poller[p].event, poller[p].receive>>

\* The event types that have a handler.
Handled == {"bounce", "transient", "complaint"}

\* INSERT INTO task_queue, then the message may go.
Insert(p) ==
    /\ poller[p].pc = "insert"
    /\ message[poller[p].event].kind \in Handled
    /\ Queue!Submit(Report(p))
    /\ ToDelete(p)
    /\ UNCHANGED <<accountVars, message, worker, faults>>

\* Mutant: the message is acknowledged whether its task exists or not.
InsertFailsQuietly(p) ==
    /\ Fault("db")
    /\ poller[p].pc = "insert"
    /\ message[poller[p].event].kind \in Handled
    /\ ToDelete(p)
    /\ UNCHANGED <<accountVars, message, queueVars, worker>>

\* The statement fails, or commits and its reply is lost: the message stays.
InsertFails(p) ==
    /\ Fault("db")
    /\ poller[p].pc = "insert"
    /\ message[poller[p].event].kind \in Handled
    /\ Queue!Submit(Report(p)) \/ UNCHANGED queueVars
    /\ Poll(p)
    /\ UNCHANGED <<accountVars, message, worker>>

\* Other types are logged and acknowledged without a task; a body that does
\* not decode stays in SQS until it goes to the dead-letter queue.
Skip(p) ==
    /\ poller[p].pc = "insert"
    /\ \/ message[poller[p].event].kind = "other" /\ ToDelete(p)
       \/ message[poller[p].event].kind = "garbled" /\ Poll(p)
    /\ UNCHANGED <<accountVars, message, queueVars, worker, faults>>

\* DeleteMessage works with the receipt of a delivery that has expired too, as
\* long as the queue still has the message.
Delete(p) ==
    /\ poller[p].pc = "delete"
    /\ message' = [message EXCEPT ![poller[p].event].place =
                      IF @ \in {"visible", "held"} THEN "gone" ELSE @]
    /\ Poll(p)
    /\ UNCHANGED <<accountVars, queueVars, worker, faults>>

\* "SQS will redeliver": the error is logged.
DeleteFails(p) ==
    /\ Fault("sqs")
    /\ poller[p].pc = "delete"
    /\ Poll(p)
    /\ UNCHANGED <<accountVars, message, queueVars, worker>>

\* The process dies or its context is cancelled.
PollerStops(p) ==
    /\ Fault("crash")
    /\ poller[p].pc # "poll"
    /\ Poll(p)
    /\ UNCHANGED <<accountVars, message, queueVars, worker>>

-----------------------------------------------------------------------------
(* Workers and handlers                                                    *)

Goto(w, pc) == worker' = [worker EXCEPT ![w].pc = pc]

Enqueue(m) ==
    /\ Queue!Submit(m)
    /\ UNCHANGED <<accountVars, message, poller, worker, faults>>

\* handleEmailAccountDeleted sends without looking at the address.
Handler(t) == IF t \in Reports THEN "mark"
              ELSE IF t \in Farewells THEN "send" ELSE "check"

Take(w, t) ==
    /\ worker[w].pc = "idle"
    /\ Queue!Start(t)
    /\ worker' = [worker EXCEPT ![w] = [pc |-> Handler(t), task |-> t]]
    /\ UNCHANGED <<accountVars, message, poller, faults>>

\* sendIfDeliverable: without a row the mail may go.
Deliverable == address \in {"none", "active"}

Check(w) ==
    /\ worker[w].pc = "check"
    /\ Goto(w, IF Deliverable THEN "send" ELSE "ok")
    /\ UNCHANGED <<accountVars, message, poller, queueVars, faults>>

\* Mails that count against the suppression of the address.
Late(w) == late' = IF suppressed /\ worker[w].task \notin Farewells
                   THEN [late EXCEPT ![w] = @ + 1] ELSE late

\* Mailer.Send: SES accepts the mail, and the worker learns of it or not.
Send(w) ==
    /\ worker[w].pc = "send"
    /\ Queue!Send(worker[w].task)
    /\ \/ Goto(w, "ok") /\ UNCHANGED faults
       \/ Goto(w, "err") /\ Fault("mail")
    /\ Late(w)
    /\ UNCHANGED <<address, edit, suppressed, message, poller>>

\* Mutant: every bounce counts.
VerdictOnAnyBounce(kind) ==
    CASE kind \in {"bounce", "transient"} -> "bounced"
      [] kind = "complaint"               -> "complained"
      [] OTHER                            -> "active"

\* Mutant: complaints are not acted on.
VerdictOnBounces(kind) == IF kind = "bounce" THEN "bounced" ELSE "active"

\* What the handlers write; a transient bounce is ignored.
Verdict(kind) == CASE kind = "bounce"    -> "bounced"
                   [] kind = "complaint" -> "complained"
                   [] OTHER              -> "active"

\* MarkEmailStatus: UPDATE ... WHERE email = $2, of no row or of the present
\* one, whatever status it has.
MarkEmailStatus(verdict) ==
    IF verdict # "active" /\ address # "none"
    THEN address' = verdict /\ suppressed' = TRUE
    ELSE UNCHANGED <<address, suppressed>>

Mark(w) ==
    /\ worker[w].pc = "mark"
    /\ MarkEmailStatus(Verdict(message[worker[w].task[1]].kind))
    /\ \/ Goto(w, "ok") /\ UNCHANGED faults
       \/ Goto(w, "err") /\ Fault("db")
    /\ UNCHANGED <<edit, late, message, poller, queueVars>>

\* The SELECT, the mail or the UPDATE fails without effect.
HandlerFails(w) ==
    /\ \/ worker[w].pc \in {"check", "mark"} /\ Fault("db")
       \/ worker[w].pc = "send" /\ Fault("mail")
    /\ Goto(w, "err")
    /\ UNCHANGED <<accountVars, message, poller, queueVars>>

Idle(w) == worker' = [worker EXCEPT ![w] = IdleWorker]

\* markCompleted and markFailed.
Record(w) ==
    LET t == worker[w].task IN
    /\ \/ worker[w].pc = "ok" /\ Queue!Succeed(t)
       \/ worker[w].pc = "err" /\ (Queue!Retry(t) \/ Queue!Bury(t))
    /\ Idle(w)
    /\ UNCHANGED <<accountVars, message, poller, faults>>

\* The process dies, or the result cannot be recorded: the task stays running.
WorkerStops(w) ==
    /\ \/ worker[w].pc # "idle" /\ Fault("crash")
       \/ worker[w].pc \in {"ok", "err"} /\ Fault("db")
    /\ Idle(w)
    /\ UNCHANGED <<accountVars, message, poller, queueVars>>

-----------------------------------------------------------------------------
Account      == Register \/ Purge \/ EditRead \/ EditWrite
PollerWork(p) == \/ \E e \in Events : Receive(p, e)
                 \/ Insert(p) \/ InsertFails(p) \/ Skip(p)
                 \/ Delete(p) \/ DeleteFails(p)
WorkerWork(w) == \/ \E t \in Tasks : Take(w, t)
                 \/ Check(w) \/ Send(w) \/ Mark(w) \/ HandlerFails(w) \/ Record(w)

Next == \/ Account
        \/ \E e \in Events : Publish(e) \/ Expire(e)
        \/ \E p \in Pollers : PollerWork(p) \/ PollerStops(p)
        \/ \E m \in Mails : Enqueue(m)
        \/ \E w \in Workers : WorkerWork(w) \/ WorkerStops(w)

Spec == Init /\ [][Next]_vars

\* Pollers and workers go on, and visibility timeouts end.  Nobody has to
\* register, to send a mail or to complain.
FairSpec == /\ Spec
            /\ \A p \in Pollers : WF_vars(PollerWork(p))
            /\ \A w \in Workers : WF_vars(WorkerWork(w))
            /\ \A e \in Events : WF_vars(Expire(e))

-----------------------------------------------------------------------------
(* Properties                                                              *)

\* Types of the account, the messages and the goroutines.
TypeOK ==
    /\ address \in Statuses \union {"none"}
    /\ edit \in Statuses \union {"idle"}
    /\ message \in [Events -> Messages]
    /\ poller \in [Pollers -> Pollings]
    /\ stage \in [Tasks -> {"none", "waiting", "running", "done", "dead"}]
    /\ tries \in [Tasks -> 0..MaxAttempts]
    /\ sends \in [Tasks -> Nat]
    /\ worker \in [Workers -> Workings]
    /\ faults \in 0..MaxFaults
    /\ suppressed \in BOOLEAN
    /\ late \in [Workers -> Nat]

\* "Tasks can sit in the queue long enough that an address's status changes
\* between enqueue and process. This check is the authoritative one"
\* (helpers.go:188): once an event has been handled for a user, each worker
\* gets at most one more mail to that address accepted, the one it was past
\* the check with, whatever is edited, retried or delivered again.  The mail
\* that confirms a deletion is not checked and does not count.
LateMailsBounded == \A w \in Workers : late[w] <= 1

\* "The message is left in SQS to be redelivered" (ses_events.go:48): no
\* bounce or complaint leaves SQS before task_queue has a row for it.
NoEventLost ==
    \A e \in Events :
        message[e].place = "gone" /\ message[e].kind \in Handled =>
            \E r \in Reports : r[1] = e /\ stage[r] # "none"

\* Nobody is cut off for a transient bounce or by somebody's mistake: a
\* suppressed address has had a permanent bounce or a complaint.
SuppressedForCause ==
    /\ address = "bounced" => \E e \in Events : message[e].kind = "bounce"
    /\ address = "complained" => \E e \in Events : message[e].kind = "complaint"

\* Somebody has to look: the message went to the dead-letter queue, or a task
\* about it is dead or has lost its worker.
GivenUp(e) ==
    \/ message[e].place = "dlq"
    \/ \E r \in Reports :
          /\ r[1] = e
          /\ \/ stage[r] = "dead"
             \/ stage[r] = "running" /\ \A w \in Workers : worker[w].task # r

\* A message that no poller has received yet.
Published(e) == message[e].place = "visible" /\ message[e].receives = 0

\* After every bounce and complaint the address is suppressed, by this event or
\* by another, unless there is no row just then, or the event ends where an
\* operator finds it.
EventTakesEffect ==
    \A e \in Events :
        Published(e) /\ message[e].kind \in {"bounce", "complaint"}
            ~> address # "active" \/ GivenUp(e)
=============================================================================
