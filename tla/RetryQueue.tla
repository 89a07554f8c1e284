----------------------------- MODULE RetryQueue -----------------------------
(***************************************************************************)
(* What the rest of the API relies on when it inserts a row in task_queue: *)
(* the job is attempted at most MaxAttempts times, one attempt at a time,  *)
(* each attempt acts on the outside world (sends its email) at most once,  *)
(* and a job that is done or dead stays so.  TaskQueue implements this     *)
(* specification with a shared table, polling workers and row locks.       *)
(***************************************************************************)
EXTENDS Naturals

CONSTANTS Tasks,        \* the jobs that may ever be submitted
          MaxAttempts   \* attempts granted to a job

VARIABLES stage,        \* stage[t]: where job t is in its life
          tries,        \* tries[t]: attempts of t that are known to have failed
          sends         \* sends[t]: times the effect of t became visible outside

queueVars == <<stage, tries, sends>>

Init == /\ stage = [t \in Tasks |-> "none"]
        /\ tries = [t \in Tasks |-> 0]
        /\ sends = [t \in Tasks |-> 0]

Submit(t) == /\ stage[t] = "none"
             /\ stage' = [stage EXCEPT ![t] = "waiting"]
             /\ UNCHANGED <<tries, sends>>

Start(t) == /\ stage[t] = "waiting"
            /\ stage' = [stage EXCEPT ![t] = "running"]
            /\ UNCHANGED <<tries, sends>>

\* One visible effect per attempt: the (k+1)-st needs k failed attempts.
Send(t) == /\ stage[t] = "running"
           /\ sends[t] <= tries[t]
           /\ sends' = [sends EXCEPT ![t] = @ + 1]
           /\ UNCHANGED <<stage, tries>>

Succeed(t) == /\ stage[t] = "running"
              /\ stage' = [stage EXCEPT ![t] = "done"]
              /\ UNCHANGED <<tries, sends>>

Retry(t) == /\ stage[t] = "running"
            /\ tries[t] + 1 < MaxAttempts
            /\ tries' = [tries EXCEPT ![t] = @ + 1]
            /\ stage' = [stage EXCEPT ![t] = "waiting"]
            /\ UNCHANGED sends

Bury(t) == /\ stage[t] = "running"
           /\ tries[t] + 1 = MaxAttempts
           /\ tries' = [tries EXCEPT ![t] = @ + 1]
           /\ stage' = [stage EXCEPT ![t] = "dead"]
           /\ UNCHANGED sends

Next == \E t \in Tasks :
           Submit(t) \/ Start(t) \/ Send(t) \/ Succeed(t) \/ Retry(t) \/ Bury(t)

Spec == Init /\ [][Next]_queueVars
=============================================================================
