------------------------------- MODULE Reviews -------------------------------
(***************************************************************************)
(* The reviews of one employer, their moderation, and the aggregate        *)
(* ratings kept in the employer's row: app/reviews.go, data.ReviewModel,   *)
(* EmployerModel.RecalculateRatings and the nightly recalculation.         *)
(*                                                                         *)
(* A review's content is its rating.  The aggregate columns are modelled   *)
(* by the set of reviews and ratings they were computed from.              *)
(*                                                                         *)
(* A moderation request updates the row and queues the recalculation in    *)
(* two statements.  RecalculateRatings is one statement, but under READ    *)
(* COMMITTED it computes its subquery from the snapshot taken when it      *)
(* starts and, where another one has updated the employer in the meantime, *)
(* still writes that result over the newer one.                            *)
(***************************************************************************)
EXTENDS Naturals

CONSTANTS Reviews,      \* rows that may be submitted
          Ratings,      \* values of the ratings
          Moderators,   \* administrators, each with a list of reviews open
          Workers,      \* worker goroutines that run employer:recalc_ratings
          Nightly,      \* cron loops that run the recalculation of all employers
          MaxQueued,    \* bound: recalculation tasks in the queue
          Faults        \* which of FaultKinds may happen

\* A statement fails, or the process dies between two of them.
FaultKinds == {"db", "crash"}

Nobody == "nobody"
Calcs  == Workers \union Nightly

ASSUME ReviewsAssumption ==
    /\ Nobody \notin Reviews
    /\ Ratings # {}
    /\ MaxQueued \in Nat \ {0}
    /\ Faults \subseteq FaultKinds
    /\ Workers \intersect Nightly = {}

VARIABLES
    row,        \* row[r]: the row of table review
    open,       \* open[m]: the review and the content moderator m has before him
    told,       \* moderators' requests that have approved and not yet queued
    queued,     \* recalculation tasks in task_queue
    calc,       \* calc[c]: what a running recalculation has computed
    average,    \* what the employer's aggregate columns were computed from
    basis,      \* history: what the administrator who approved r had read
    raced,      \* history: reviews approved after a change he had not seen
    overlapped, \* history: recalculations another one has written beneath
    owing       \* history: a change nobody was told of, or an older result
                \* written last, since the aggregates were last right

history == <<basis, raced, overlapped, owing>>
vars == <<row, open, told, queued, calc, average, history>>

Statuses == {"absent", "pending", "approved", "rejected"}
Rows     == [status : Statuses, rating : Ratings, owned : BOOLEAN]
Copies   == [review : Reviews \union {Nobody}, rating : Ratings]
NoRating == CHOOSE x \in Ratings : TRUE   \* where it means nothing
None     == [review |-> Nobody, rating |-> NoRating]
Running  == [on : BOOLEAN, counted : SUBSET (Reviews \X Ratings)]
Idle     == [on |-> FALSE, counted |-> {}]

Exists(r)   == row[r].status # "absent"
Approved(r) == row[r].status = "approved"

\* WHERE employer_id = $1 AND status = 'approved'
Counted == {<<r, row[r].rating>> : r \in {x \in Reviews : Approved(x)}}

Init == /\ row = [r \in Reviews |-> [status |-> "absent", rating |-> NoRating, owned |-> TRUE]]
        /\ open = [m \in Moderators |-> None]
        /\ told = {}
        /\ queued = 0
        /\ calc = [c \in Calcs |-> Idle]
        /\ average = {}
        /\ basis = [r \in Reviews |-> NoRating]
        /\ raced = {}
        /\ overlapped = {}
        /\ owing = FALSE

-----------------------------------------------------------------------------
(* Authors                                                                 *)

Submit(r) ==
    /\ row[r].status = "absent"
    /\ \E x \in Ratings :
          row' = [row EXCEPT ![r] = [status |-> "pending", rating |-> x, owned |-> TRUE]]
    /\ UNCHANGED <<open, told, queued, calc, average, history>>

\* A change nobody queues a recalculation for.
Unannounced(r) ==
    /\ basis' = [basis EXCEPT ![r] = NoRating]
    /\ raced' = raced \ {r}
    /\ owing' = (owing \/ Approved(r))
    /\ UNCHANGED overlapped

\* Mutant: the status that was read is written back.
StatusKept(r) == row[r].status

\* "Edits require re-moderation"
StatusAfterEdit(r) == "pending"

\* ReviewModel.Update reads the row, and writes every column back: the given
\* ones, and of the others what it has read.  That may be older than what it
\* overwrites, so any rating may be the one written, and nothing else of the
\* reading is left: the two statements are one step.
Edit(r) ==
    /\ Exists(r) /\ row[r].owned
    /\ \E x \in Ratings :
          row' = [row EXCEPT ![r] = [status |-> StatusAfterEdit(r), rating |-> x, owned |-> TRUE]]
    /\ Unannounced(r)
    /\ UNCHANGED <<open, told, queued, calc, average>>

\* Thirty days after its author has left, the review loses its user_id.
Purge(r) ==
    /\ Exists(r) /\ row[r].owned
    /\ row' = [row EXCEPT ![r].owned = FALSE]
    /\ UNCHANGED <<open, told, queued, calc, average, history>>

-----------------------------------------------------------------------------
(* Moderation                                                              *)

\* GetAllForModeration scans user_id into a string: a NULL among the rows with
\* the wanted status fails the whole list.
Listable(s) == \A r \in Reviews : row[r].status = s => row[r].owned

List(m, r) ==
    /\ m \notin told
    /\ Exists(r) /\ Listable(row[r].status)
    /\ open' = [open EXCEPT ![m] = [review |-> r, rating |-> row[r].rating]]
    /\ UNCHANGED <<row, told, queued, calc, average, history>>

\* Mutant: the comparison is with the wrong status.
QueuesRejections(s, r) == s = "rejected" /\ row[r].owned

\* The request goes on to queue a recalculation.  Scanning the row of a purged
\* author fails after the UPDATE, with status 500.
Queues(s, r) == s = "approved" /\ row[r].owned

\* Moderate sets the status whatever it was, by id alone.
Approve(m) ==
    LET r == open[m].review IN
    /\ r # Nobody /\ m \notin told
    /\ row' = [row EXCEPT ![r].status = "approved"]
    /\ basis' = [basis EXCEPT ![r] = open[m].rating]
    /\ raced' = IF open[m].rating = row[r].rating THEN raced \ {r} ELSE raced \union {r}
    /\ told' = IF Queues("approved", r) THEN told \union {m} ELSE told
    /\ owing' = (owing \/ ~row[r].owned)
    /\ open' = [open EXCEPT ![m] = None]
    /\ UNCHANGED <<queued, calc, average, overlapped>>

Reject(m) ==
    LET r == open[m].review IN
    /\ r # Nobody /\ m \notin told
    /\ row' = [row EXCEPT ![r].status = "rejected"]
    /\ told' = IF Queues("rejected", r) THEN told \union {m} ELSE told
    /\ Unannounced(r)
    /\ open' = [open EXCEPT ![m] = None]
    /\ UNCHANGED <<queued, calc, average>>

\* The statement fails.  No request deletes a review, so the row is there.
DecideFails(m) ==
    /\ open[m].review # Nobody /\ m \notin told
    /\ "db" \in Faults
    /\ open' = [open EXCEPT ![m] = None]
    /\ UNCHANGED <<row, told, queued, calc, average, history>>

\* Tasks.Insert.  Its failure is logged and the request succeeds.
Announce(m) ==
    /\ m \in told
    /\ \/ queued < MaxQueued /\ queued' = queued + 1 /\ UNCHANGED owing
       \/ Faults # {} /\ owing' = TRUE /\ UNCHANGED queued
    /\ told' = told \ {m}
    /\ UNCHANGED <<row, open, calc, average, basis, raced, overlapped>>

-----------------------------------------------------------------------------
(* Recalculation                                                           *)

\* The statement starts: its snapshot is taken and the subquery computed.
Compute(c) ==
    /\ ~calc[c].on
    /\ IF c \in Workers THEN queued > 0 /\ queued' = queued - 1 ELSE UNCHANGED queued
    /\ calc' = [calc EXCEPT ![c] = [on |-> TRUE, counted |-> Counted]]
    /\ UNCHANGED <<row, open, told, average, history>>

\* Mutant: a GROUP BY in the subquery, which then has no row to update from
\* where no review is approved.
GroupedResult(c) == IF calc[c].counted = {} THEN average ELSE calc[c].counted

Result(c) == calc[c].counted

Others(c) == {d \in Calcs \ {c} : calc[d].on}

Write(c) ==
    /\ calc[c].on
    /\ average' = Result(c)
    /\ calc' = [calc EXCEPT ![c] = Idle]
    /\ overlapped' = (overlapped \ {c}) \union Others(c)
    /\ owing' = ((owing \/ c \in overlapped) /\ average' # Counted)
    /\ UNCHANGED <<row, open, told, queued, basis, raced>>

\* The statement fails or its process dies.  The queue retries a task, or has
\* given it up or lost it; the nightly run goes on to the next employer.
CalcFails(c) ==
    /\ calc[c].on /\ Faults # {}
    /\ calc' = [calc EXCEPT ![c] = Idle]
    /\ overlapped' = overlapped \ {c}
    /\ \/ c \in Workers /\ queued < MaxQueued /\ queued' = queued + 1 /\ UNCHANGED owing
       \/ owing' = TRUE /\ UNCHANGED queued
    /\ UNCHANGED <<row, open, told, average, basis, raced>>

-----------------------------------------------------------------------------
AuthorStep ==
    \E r \in Reviews : Submit(r) \/ Edit(r) \/ Purge(r)

ModeratorStep ==
    \E m \in Moderators :
        \/ \E r \in Reviews : List(m, r)
        \/ Approve(m) \/ Reject(m) \/ DecideFails(m) \/ Announce(m)

CalcStep == \E c \in Calcs : Compute(c) \/ Write(c) \/ CalcFails(c)

Next == AuthorStep \/ ModeratorStep \/ CalcStep

Spec == Init /\ [][Next]_vars

\* The cron loop starts a recalculation every night, and it does not fail in
\* every night there is.
FairSpec == /\ Spec
            /\ \A c \in Nightly : WF_vars(Compute(c)) /\ SF_vars(Write(c))

-----------------------------------------------------------------------------
TypeOK ==
    /\ row \in [Reviews -> Rows]
    /\ open \in [Moderators -> Copies]
    /\ told \subseteq Moderators
    /\ queued \in 0..MaxQueued
    /\ calc \in [Calcs -> Running]
    /\ average \subseteq Reviews \X Ratings
    /\ basis \in [Reviews -> Ratings]
    /\ raced \subseteq Reviews
    /\ overlapped \subseteq Calcs
    /\ owing \in BOOLEAN

\* "Edited reviews revert to 'pending' status for re-moderation"
\* (app/reviews.go:70): what the public reads is what the administrator who
\* approved it read, except where an edit slipped in between his reading and
\* his decision.
PublicIsModerated ==
    \A r \in Reviews \ raced : Approved(r) => row[r].rating = basis[r]

\* An approval reaches the aggregates: when no recalculation is queued, about
\* to be queued or running, they are right, unless an approved review was
\* edited or rejected, a task was lost, or an older result written
\* last, since they were last right.
RatingsAreCurrent ==
    \/ average = Counted
    \/ owing \/ queued > 0 \/ told # {} \/ \E c \in Calcs : calc[c].on

\* Whatever was lost or overtaken: when the reviews do not change any more, the
\* nightly recalculation makes the aggregates right, and they stay right.
RatingsConverge == <>[][FALSE]_row => <>[](average = Counted)
=============================================================================
