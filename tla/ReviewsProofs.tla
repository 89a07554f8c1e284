---------------------------- MODULE ReviewsProofs ----------------------------
(* Theorems about reviews, for any number of reviews, ratings, authors,     *)
(* administrators, workers and cron loops, and for every choice of faults.  *)
EXTENDS Reviews, TLAPS

LEMMA Counting == TypeOK => Counted \subseteq Reviews \X Ratings
BY DEF TypeOK, Rows, Counted, Approved

LEMMA InitTypes == Init => TypeOK
<1> SUFFICES ASSUME Init PROVE TypeOK
  OBVIOUS
<1>1. NoRating \in Ratings
  BY ReviewsAssumption DEF NoRating
<1>2. /\ row \in [Reviews -> Rows] /\ basis \in [Reviews -> Ratings]
      /\ average \subseteq Reviews \X Ratings
      /\ raced \subseteq Reviews /\ overlapped \subseteq Calcs
  BY <1>1 DEF Init, Rows, Statuses
<1>3. open \in [Moderators -> Copies] /\ told \subseteq Moderators
  BY <1>1 DEF Init, Copies, None
<1>4. calc \in [Calcs -> Running]
  BY DEF Init, Running, Idle
<1>5. queued \in 0..MaxQueued
  BY ReviewsAssumption DEF Init
<1> QED
  BY <1>2, <1>3, <1>4, <1>5 DEF Init, TypeOK

LEMMA TypeStep == TypeOK /\ [Next]_vars => TypeOK'
<1> SUFFICES ASSUME TypeOK, [Next]_vars PROVE TypeOK'
  OBVIOUS
<1>0. NoRating \in Ratings
  BY ReviewsAssumption DEF NoRating
<1> USE <1>0, ReviewsAssumption
    DEF TypeOK, Rows, Statuses, Copies, None, Running, Idle, Calcs, history, Unannounced
<1>1. ASSUME NEW r \in Reviews, Submit(r) PROVE TypeOK'
  BY <1>1 DEF Submit
<1>2. ASSUME NEW r \in Reviews, Edit(r) PROVE TypeOK'
  BY <1>2 DEF Edit, StatusAfterEdit, Approved
<1>4. ASSUME NEW r \in Reviews, Purge(r) PROVE TypeOK'
  BY <1>4 DEF Purge
<1>5. ASSUME NEW m \in Moderators, NEW r \in Reviews, List(m, r) PROVE TypeOK'
  BY <1>5 DEF List
<1>6. ASSUME NEW m \in Moderators, Approve(m) PROVE TypeOK'
  BY <1>6 DEF Approve, Queues
<1>7. ASSUME NEW m \in Moderators, Reject(m) PROVE TypeOK'
  BY <1>7 DEF Reject, Queues, Approved
<1>8. ASSUME NEW m \in Moderators, DecideFails(m) PROVE TypeOK'
  BY <1>8 DEF DecideFails
<1>9. ASSUME NEW m \in Moderators, Announce(m) PROVE TypeOK'
  <2>1. queued' \in 0..MaxQueued
    BY <1>9 DEF Announce
  <2>2. owing' \in BOOLEAN /\ told' \subseteq Moderators
    BY <1>9 DEF Announce
  <2> QED
    BY <1>9, <2>1, <2>2 DEF Announce
<1>10. ASSUME NEW c \in Calcs, Compute(c) PROVE TypeOK'
  BY <1>10, Counting DEF Compute
<1>11. ASSUME NEW c \in Calcs, Write(c) PROVE TypeOK'
  BY <1>11 DEF Write, Result, Others
<1>12. ASSUME NEW c \in Calcs, CalcFails(c) PROVE TypeOK'
  <2>1. queued' \in 0..MaxQueued
    BY <1>12 DEF CalcFails
  <2>2. owing' \in BOOLEAN /\ overlapped' \subseteq Calcs
    BY <1>12 DEF CalcFails
  <2>3. calc' \in [Calcs -> Running]
    BY <1>12 DEF CalcFails
  <2> QED
    BY <1>12, <2>1, <2>2, <2>3 DEF CalcFails
<1>13. CASE UNCHANGED vars
  BY <1>13 DEF vars
<1> QED
  BY <1>1, <1>2, <1>4, <1>5, <1>6, <1>7, <1>8, <1>9, <1>10, <1>11, <1>12, <1>13
  DEF Next, AuthorStep, ModeratorStep, CalcStep

\* Types, for every instance.
THEOREM TypeCorrect == Spec => []TypeOK
<1> QED
  BY InitTypes, TypeStep, PTL DEF Spec

-----------------------------------------------------------------------------
LEMMA ModeratedStep ==
    TypeOK /\ PublicIsModerated /\ [Next]_vars => PublicIsModerated'
<1> SUFFICES ASSUME TypeOK, PublicIsModerated, [Next]_vars PROVE PublicIsModerated'
  OBVIOUS
<1> USE DEF TypeOK, Rows, PublicIsModerated, Approved, history, Unannounced
<1>1. ASSUME NEW r \in Reviews, Submit(r) PROVE PublicIsModerated'
  BY <1>1 DEF Submit
<1>2. ASSUME NEW r \in Reviews, Edit(r) PROVE PublicIsModerated'
  BY <1>2 DEF Edit, StatusAfterEdit
<1>4. ASSUME NEW r \in Reviews, Purge(r) PROVE PublicIsModerated'
  BY <1>4 DEF Purge
<1>5. ASSUME NEW m \in Moderators, Approve(m) PROVE PublicIsModerated'
  BY <1>5, ReviewsAssumption DEF Approve, Copies
<1>6. ASSUME NEW m \in Moderators, Reject(m) PROVE PublicIsModerated'
  BY <1>6 DEF Reject
<1>7. CASE UNCHANGED <<row, basis, raced>>
  BY <1>7
<1> QED
  BY <1>1, <1>2, <1>4, <1>5, <1>6, <1>7
  DEF Next, AuthorStep, ModeratorStep, CalcStep, List, DecideFails, Announce,
      Compute, Write, CalcFails, vars

\* What the public reads is what the administrator who approved it had read,
\* unless it was edited between his reading and his decision.
THEOREM ModerationSound == Spec => []PublicIsModerated
<1>1. Init => PublicIsModerated
  BY DEF Init, PublicIsModerated, Approved
<1> QED
  BY <1>1, InitTypes, TypeStep, ModeratedStep, PTL DEF Spec

-----------------------------------------------------------------------------
(* A recalculation that nobody has written beneath is either right or not   *)
(* the last word: something is queued, about to be queued, running with the *)
(* right result, or excused.                                                *)

\* Some recalculation has the right result in hand.
RightInHand == \E c \in Calcs : calc[c].on /\ calc[c].counted = Counted

ToCome == owing \/ queued > 0 \/ told # {} \/ RightInHand

RatingsInv ==
    /\ average = Counted \/ ToCome
    /\ \A c \in Calcs \ overlapped : calc[c].on => ToCome

\* A change of reviews that are not approved leaves the aggregates alone.
LEMMA CountedKept ==
    ASSUME \A r \in Reviews : Approved(r)' <=> Approved(r),
           \A r \in Reviews : Approved(r) => row'[r].rating = row[r].rating
    PROVE  Counted' = Counted
BY DEF Counted, Approved

LEMMA KeptStep ==
    ASSUME RatingsInv, Counted' = Counted,
           UNCHANGED <<queued, calc, average, overlapped>>, owing => owing', told \subseteq told'
    PROVE  RatingsInv'
BY DEF RatingsInv, ToCome, RightInHand

LEMMA ExcusedStep ==
    ASSUME owing' \/ told' # {} \/ queued' > 0
    PROVE  RatingsInv'
BY DEF RatingsInv, ToCome

\* Whatever a request changes silently, it either changes no approved review
\* or owes a recalculation.
LEMMA SilentStep ==
    ASSUME TypeOK, RatingsInv, NEW r \in Reviews, Unannounced(r),
           \A x \in Reviews \ {r} : row'[x] = row[x],
           row'[r].status # "approved",
           UNCHANGED <<queued, calc, average>>, told \subseteq told'
    PROVE  RatingsInv'
<1>1. CASE Approved(r)
  BY <1>1, ExcusedStep DEF Unannounced
<1>2. CASE ~Approved(r)
  <2>1. Counted' = Counted
    BY <1>2, CountedKept DEF Approved
  <2> QED
    BY <2>1, KeptStep DEF Unannounced
<1> QED
  BY <1>1, <1>2

LEMMA RatingsStep == TypeOK /\ RatingsInv /\ [Next]_vars => RatingsInv'
<1> SUFFICES ASSUME TypeOK, RatingsInv, [Next]_vars PROVE RatingsInv'
  OBVIOUS
<1>1. ASSUME NEW r \in Reviews, Submit(r) PROVE RatingsInv'
  <2>1. Counted' = Counted
    BY <1>1, CountedKept DEF Submit, Approved, TypeOK, Rows
  <2> QED
    BY <1>1, <2>1, KeptStep DEF Submit, history
<1>2. ASSUME NEW r \in Reviews, Edit(r) PROVE RatingsInv'
  BY <1>2, SilentStep DEF Edit, StatusAfterEdit, TypeOK
<1>4. ASSUME NEW r \in Reviews, Purge(r) PROVE RatingsInv'
  <2>1. Counted' = Counted
    BY <1>4, CountedKept DEF Purge, Approved, TypeOK, Rows
  <2> QED
    BY <1>4, <2>1, KeptStep DEF Purge, history
<1>5. ASSUME NEW m \in Moderators, Approve(m) PROVE RatingsInv'
  <2>1. told' # {} \/ owing'
    BY <1>5 DEF Approve, Queues
  <2> QED
    BY <2>1, ExcusedStep
<1>6. ASSUME NEW m \in Moderators, Reject(m) PROVE RatingsInv'
  <2>1. PICK r \in Reviews : open[m].review = r
    BY <1>6, ReviewsAssumption DEF Reject, TypeOK, Copies
  <2>2. \A x \in Reviews \ {r} : row'[x] = row[x]
    BY <1>6, <2>1 DEF Reject, TypeOK
  <2>3. row'[r].status # "approved"
    BY <1>6, <2>1 DEF Reject, TypeOK, Rows
  <2> QED
    BY <1>6, <2>1, <2>2, <2>3, SilentStep DEF Reject
<1>7. ASSUME NEW m \in Moderators, Announce(m) PROVE RatingsInv'
  <2>1. owing' \/ queued' > 0
    BY <1>7 DEF Announce, TypeOK
  <2> QED
    BY <2>1, ExcusedStep
<1>8. ASSUME NEW c \in Calcs, Compute(c) PROVE RatingsInv'
  <2>1. Counted' = Counted
    BY <1>8 DEF Compute, Counted, Approved
  <2>2. calc'[c].on /\ calc'[c].counted = Counted'
    BY <1>8, <2>1 DEF Compute, TypeOK
  <2> QED
    BY <2>2 DEF RatingsInv, ToCome, RightInHand
<1>9. ASSUME NEW c \in Calcs, Write(c) PROVE RatingsInv'
  <2>1. Counted' = Counted
    BY <1>9 DEF Write, Counted, Approved
  <2>2. \A d \in Calcs \ overlapped' : ~calc'[d].on
    BY <1>9 DEF Write, Others, TypeOK, Idle
  <2>3. CASE calc[c].counted = Counted
    BY <1>9, <2>1, <2>2, <2>3 DEF Write, Result, RatingsInv
  <2>4. CASE calc[c].counted # Counted /\ c \in overlapped
    BY <1>9, <2>1, <2>4, ExcusedStep DEF Write, Result
  <2>5. CASE calc[c].counted # Counted /\ c \notin overlapped
    <3>1. ToCome
      BY <1>9, <2>5 DEF Write, RatingsInv
    <3>2. CASE RightInHand
      <4>1. PICK d \in Calcs : calc[d].on /\ calc[d].counted = Counted
        BY <3>2 DEF RightInHand
      <4>2. calc'[d] = calc[d]
        BY <1>9, <2>5, <4>1 DEF Write, TypeOK
      <4> QED
        BY <2>1, <4>1, <4>2 DEF RatingsInv, ToCome, RightInHand
    <3>3. CASE owing
      BY <1>9, <2>1, <2>5, <3>3, ExcusedStep DEF Write, Result
    <3>4. CASE queued > 0 \/ told # {}
      BY <1>9, <3>4, ExcusedStep DEF Write
    <3> QED
      BY <3>1, <3>2, <3>3, <3>4 DEF ToCome
  <2> QED
    BY <2>3, <2>4, <2>5
<1>10. ASSUME NEW c \in Calcs, CalcFails(c) PROVE RatingsInv'
  <2>1. owing' \/ queued' > 0
    BY <1>10 DEF CalcFails, TypeOK
  <2> QED
    BY <2>1, ExcusedStep
<1>11. CASE UNCHANGED <<row, queued, told, calc, average, overlapped, owing>>
  BY <1>11 DEF RatingsInv, ToCome, RightInHand, Counted, Approved
<1> QED
  BY <1>1, <1>2, <1>4, <1>5, <1>6, <1>7, <1>8, <1>9, <1>10, <1>11
  DEF Next, AuthorStep, ModeratorStep, CalcStep, List, DecideFails, vars, history

\* An approval reaches the aggregates: with nothing queued, about to be queued
\* or running they are right, unless what is owed is owed.
THEOREM AggregatesSound == Spec => []RatingsAreCurrent
<1>1. Init => RatingsInv
  BY DEF Init, RatingsInv, Counted, Approved, Idle
<1>2. RatingsInv => RatingsAreCurrent
  BY DEF RatingsInv, RatingsAreCurrent, ToCome, RightInHand
<1> QED
  BY <1>1, <1>2, InitTypes, TypeStep, RatingsStep, PTL DEF Spec
=============================================================================
