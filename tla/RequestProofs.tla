---------------------------- MODULE RequestProofs ----------------------------
(* Theorems about the two things that serve every client alike: the rate     *)
(* limiter, for every limit, window and number of requests in flight, and the *)
(* paged listings, for every table, page size and number of changes.          *)
EXTENDS RateLimiter, Listings, FiniteSetTheorems, TLAPS

-----------------------------------------------------------------------------
(* The rate limiter                                                        *)

\* A window in force ends within Window ticks of now.
WindowAhead == InForce => expiresAt <= now + Window

\* While guesses are still admitted, the count is the number of guesses.
CountsGuesses == style = "guarded" /\ InForce /\ count < Limit => wrong = count

\* No key is used in both ways.
Unguarded == style = "counted" => checking = {} /\ wrong = 0

LimiterInv == TypeOK /\ WindowAhead /\ CountsGuesses /\ Unguarded /\ GuessBound

LEMMA InitLimiter == Init => LimiterInv
<1>1. Cardinality({}) = 0 /\ Cardinality(Clients) \in Nat
  BY LimiterAssumption, FS_EmptySet, FS_CardinalityType
<1> QED
  BY <1>1, LimiterAssumption
  DEF Init, LimiterInv, TypeOK, WindowAhead, CountsGuesses, Unguarded,
      GuessBound, InForce

\* The requests in flight are finite in number, and one fewer when one ends.
LEMMA InFlight ==
  ASSUME NEW S \in SUBSET Clients
  PROVE  /\ Cardinality(S) \in Nat
         /\ Cardinality(Clients) \in Nat
         /\ Cardinality(S) <= Cardinality(Clients)
         /\ \A c \in S : Cardinality(S \ {c}) = Cardinality(S) - 1
<1>1. IsFiniteSet(S) /\ Cardinality(S) <= Cardinality(Clients)
  BY LimiterAssumption, FS_Subset
<1> QED
  BY <1>1, LimiterAssumption, FS_CardinalityType, FS_RemoveElement

LEMMA TypeStep == TypeOK /\ [Next]_vars => TypeOK'
<1> SUFFICES ASSUME TypeOK, [Next]_vars PROVE TypeOK'
  OBVIOUS
<1> USE LimiterAssumption DEF TypeOK, Full, InForce
<1>1. CASE Counted
  BY <1>1 DEF Counted, Admit
<1>2. ASSUME NEW c \in Clients, Peek(c) PROVE TypeOK'
  BY <1>2 DEF Peek
<1>3. ASSUME NEW c \in Clients, Fail(c) PROVE TypeOK'
  BY <1>3 DEF Fail, Admit
<1>4. ASSUME NEW c \in Clients, Leave(c) PROVE TypeOK'
  BY <1>4 DEF Leave
<1>5. ASSUME NEW c \in Clients, Succeed(c) PROVE TypeOK'
  BY <1>5 DEF Succeed, Reset
<1>6. CASE Cleanup
  BY <1>6 DEF Cleanup, Reset
<1>7. CASE Tick
  BY <1>7 DEF Tick
<1>8. CASE UNCHANGED vars
  BY <1>8 DEF vars
<1> QED
  BY <1>1, <1>2, <1>3, <1>4, <1>5, <1>6, <1>7, <1>8 DEF Next

\* Types, for every instance.
THEOREM TypeCorrect == Spec => []TypeOK
<1>1. Init => TypeOK
  BY InitLimiter DEF LimiterInv
<1> QED
  BY <1>1, TypeStep, PTL DEF Spec

LEMMA StepLimiter == LimiterInv /\ [Next]_vars => LimiterInv'
<1> SUFFICES ASSUME LimiterInv, [Next]_vars PROVE LimiterInv'
  OBVIOUS
<1>t. TypeOK /\ TypeOK'
  BY TypeStep DEF LimiterInv
<1>n. /\ Cardinality(checking) \in Nat
      /\ Cardinality(checking') \in Nat
      /\ Cardinality(Clients) \in Nat
      /\ Cardinality(checking) <= Cardinality(Clients)
      /\ Cardinality(checking') <= Cardinality(Clients)
      /\ \A c \in checking : Cardinality(checking \ {c}) = Cardinality(checking) - 1
  <2>1. checking \in SUBSET Clients /\ checking' \in SUBSET Clients
    BY <1>t DEF TypeOK
  <2> QED
    BY <2>1, InFlight
<1> USE <1>t, <1>n, LimiterAssumption
    DEF LimiterInv, TypeOK, WindowAhead, CountsGuesses, Unguarded, GuessBound,
        Full, InForce
<1>1. CASE Counted
  BY <1>1 DEF Counted, Admit
<1>2. ASSUME NEW c \in Clients, Peek(c) PROVE LimiterInv'
  BY <1>2 DEF Peek
<1>3. ASSUME NEW c \in Clients, Fail(c) PROVE LimiterInv'
  <2>1. Cardinality(checking') = Cardinality(checking) - 1 /\ style = "guarded"
    BY <1>3 DEF Fail
  <2>2. CASE Full /\ UNCHANGED <<count, expiresAt>>
    BY <1>3, <2>1, <2>2 DEF Fail
  <2>3. CASE Admit /\ InForce
    BY <1>3, <2>1, <2>3 DEF Fail, Admit
  <2>4. CASE Admit /\ ~InForce
    BY <1>3, <2>1, <2>4 DEF Fail, Admit
  <2> QED
    BY <1>3, <2>2, <2>3, <2>4 DEF Fail
<1>4. ASSUME NEW c \in Clients, Leave(c) PROVE LimiterInv'
  <2>1. Cardinality(checking') = Cardinality(checking) - 1
    BY <1>4 DEF Leave
  <2> QED
    BY <1>4, <2>1 DEF Leave
<1>5. ASSUME NEW c \in Clients, Succeed(c) PROVE LimiterInv'
  BY <1>5 DEF Succeed, Reset
<1>6. CASE Cleanup
  BY <1>6 DEF Cleanup, Reset, Expired
<1>7. CASE Tick
  BY <1>7 DEF Tick
<1>8. CASE UNCHANGED vars
  BY <1>8 DEF vars
<1> QED
  BY <1>1, <1>2, <1>3, <1>4, <1>5, <1>6, <1>7, <1>8 DEF Next

THEOREM LimiterInvariant == Spec => []LimiterInv
BY InitLimiter, StepLimiter, PTL DEF Spec

\* Concurrent guesses overshoot the limit by less than their number.
THEOREM GuessesBounded == Spec => []GuessBound
<1>1. LimiterInv => GuessBound
  BY DEF LimiterInv
<1> QED
  BY <1>1, LimiterInvariant, PTL

\* A full window is reopened by a success only.
THEOREM FullHolds == Spec => FullStaysFull
<1>1. LimiterInv /\ [Next]_vars =>
        [Full /\ now' <= expiresAt =>
           \/ count' = count /\ expiresAt' = expiresAt
           \/ \E c \in Clients : Succeed(c)]_vars
  BY LimiterAssumption
  DEF LimiterInv, TypeOK, Next, vars, Full, InForce, Counted, Admit, Peek, Fail,
      Leave, Cleanup, Expired, Tick
<1> QED
  BY <1>1, LimiterInvariant, PTL DEF Spec, FullStaysFull

-----------------------------------------------------------------------------
shownUsed == IF InForce THEN count ELSE 0
shownAge  == IF InForce THEN now + Window - expiresAt ELSE 0

LEMMA StepRefines == LimiterInv /\ [Next]_vars => [Shown!Next]_<<shownUsed, shownAge>>
<1> SUFFICES ASSUME LimiterInv, [Next]_vars
             PROVE  [Shown!Next]_<<shownUsed, shownAge>>
  OBVIOUS
<1> USE LimiterAssumption
    DEF LimiterInv, TypeOK, WindowAhead, InForce, Full, shownUsed, shownAge,
        Shown!Next, Shown!Allow, Shown!Clear, Shown!Age, Shown!Close
<1>1. CASE Counted
  BY <1>1 DEF Counted, Admit
<1>2. ASSUME NEW c \in Clients, Peek(c) PROVE UNCHANGED <<shownUsed, shownAge>>
  BY <1>2 DEF Peek
<1>3. ASSUME NEW c \in Clients, Fail(c)
      PROVE  [Shown!Next]_<<shownUsed, shownAge>>
  BY <1>3 DEF Fail, Admit
<1>4. ASSUME NEW c \in Clients, Leave(c) PROVE UNCHANGED <<shownUsed, shownAge>>
  BY <1>4 DEF Leave
<1>5. ASSUME NEW c \in Clients, Succeed(c) PROVE Shown!Clear
  BY <1>5 DEF Succeed, Reset
<1>6. CASE Cleanup
  BY <1>6 DEF Cleanup, Reset, Expired
<1>7. CASE Tick
  BY <1>7 DEF Tick
<1>8. CASE UNCHANGED vars
  BY <1>8 DEF vars
<1> QED
  BY <1>1, <1>2, <1>3, <1>4, <1>5, <1>6, <1>7, <1>8 DEF Next

\* The limiter is a fixed window, whatever the cleanup loop does and when.
THEOREM Refinement == Spec => ImplementsFixedWindow
<1>1. Init => Shown!Init
  BY DEF Init, Shown!Init, InForce
<1>2. LimiterInv /\ [Next]_vars => [Shown!Next]_Shown!windowVars
  BY StepRefines DEF shownUsed, shownAge, Shown!windowVars
<1> QED
  BY <1>1, <1>2, LimiterInvariant, PTL DEF Spec, ImplementsFixedWindow, Shown!Spec
-----------------------------------------------------------------------------
(* Bursts: what was admitted before the window in force is older than its   *)
(* start, and what was admitted Limit calls earlier is older than the       *)
(* window before it.                                                        *)

Ago(i) == allowed[i] + Window

WindowsFollow ==
    /\ style = "guarded" => allowed = <<>>
    /\ \A i \in 1..Len(allowed) : allowed[i] <= now
    /\ InForce =>
         \A i \in 1..Len(allowed) :
            /\ i + count <= Len(allowed) => Ago(i) <= expiresAt
            /\ i + count + Limit <= Len(allowed) => Ago(i) + Window < expiresAt
    /\ ~InForce =>
         \A i \in 1..Len(allowed) : i + Limit <= Len(allowed) => Ago(i) < now

BurstInv == WindowsFollow /\ BurstBound

LEMMA CountedBurst == LimiterInv /\ BurstInv /\ Counted => BurstInv'
<1> SUFFICES ASSUME LimiterInv, BurstInv, Counted PROVE BurstInv'
  OBVIOUS
<1>1. /\ allowed \in Seq(Nat) /\ now \in Nat /\ expiresAt \in Nat /\ count \in Nat
      /\ style = "counted"
      /\ InForce => count < Limit /\ expiresAt <= now + Window
      /\ UNCHANGED <<now, style>>
  BY LimiterAssumption DEF LimiterInv, TypeOK, WindowAhead, Counted, Admit, Full
<1>2. /\ Len(allowed) \in Nat /\ Len(allowed') = Len(allowed) + 1
      /\ allowed'[Len(allowed) + 1] = now
      /\ \A i \in 1..Len(allowed) : allowed'[i] = allowed[i] /\ allowed[i] \in Nat
  BY <1>1 DEF Counted
<1>3. InForce' /\ (InForce => count' = count + 1 /\ expiresAt' = expiresAt)
               /\ (~InForce => count' = 1 /\ expiresAt' = now + Window)
  BY <1>1, LimiterAssumption DEF Counted, Admit, InForce
<1>4. \A i \in 1..Len(allowed') : i \in 1..Len(allowed) \/ i = Len(allowed) + 1
  BY <1>2
<1>5. WindowsFollow'
  <2>1. style' # "guarded" /\ \A i \in 1..Len(allowed') : allowed'[i] <= now'
    BY <1>1, <1>2, <1>4 DEF BurstInv, WindowsFollow
  <2>2. ASSUME NEW i \in 1..Len(allowed'), i + count' <= Len(allowed')
        PROVE  /\ allowed'[i] + Window <= expiresAt'
               /\ i + count' + Limit <= Len(allowed') => allowed'[i] + Window + Window < expiresAt'
    <3>1. i \in 1..Len(allowed)
      BY <1>1, <1>2, <1>3, <1>4, <2>2, LimiterAssumption
    <3>2. CASE InForce
      <4>1. /\ i + count <= Len(allowed) => allowed[i] + Window <= expiresAt
            /\ i + count + Limit <= Len(allowed) => allowed[i] + Window + Window < expiresAt
        BY <3>1, <3>2 DEF BurstInv, WindowsFollow, Ago
      <4> QED
        BY <1>1, <1>2, <1>3, <2>2, <3>1, <3>2, <4>1, LimiterAssumption
    <3>3. CASE ~InForce
      <4>1. /\ allowed[i] <= now
            /\ i + Limit <= Len(allowed) => allowed[i] + Window < now
        BY <3>1, <3>3 DEF BurstInv, WindowsFollow, Ago
      <4> QED
        BY <1>1, <1>2, <1>3, <2>2, <3>1, <3>3, <4>1, LimiterAssumption
    <3> QED
      BY <3>2, <3>3
  <2>3. ASSUME NEW i \in 1..Len(allowed'), i + count' + Limit <= Len(allowed')
        PROVE  i + count' <= Len(allowed')
    BY <1>1, <1>2, <1>3, <2>3, LimiterAssumption
  <2> QED
    BY <1>3, <2>1, <2>2, <2>3 DEF WindowsFollow, Ago
<1>6. BurstBound'
  <2> SUFFICES ASSUME NEW i \in 1..Len(allowed'), i + 2 * Limit <= Len(allowed')
               PROVE  allowed'[i + 2 * Limit] - allowed'[i] > Window
    BY DEF BurstBound
  <2>1. i \in 1..Len(allowed) /\ i + 2 * Limit \in 1..Len(allowed')
    BY <1>2, LimiterAssumption
  <2>2. CASE i + 2 * Limit \in 1..Len(allowed)
    BY <1>2, <2>1, <2>2 DEF BurstInv, BurstBound
  <2>3. CASE i + 2 * Limit = Len(allowed) + 1
    <3>1. CASE InForce
      <4>1. i + count + Limit <= Len(allowed)
        BY <1>1, <2>1, <2>3, <3>1, LimiterAssumption
      <4>2. allowed[i] + Window + Window < expiresAt /\ expiresAt <= now + Window
        BY <1>1, <2>1, <3>1, <4>1 DEF BurstInv, WindowsFollow, Ago
      <4> QED
        BY <1>1, <1>2, <2>1, <2>3, <4>2, LimiterAssumption
    <3>2. CASE ~InForce
      <4>1. i + Limit <= Len(allowed)
        BY <1>1, <2>1, <2>3, LimiterAssumption
      <4>2. allowed[i] + Window < now
        BY <2>1, <3>2, <4>1 DEF BurstInv, WindowsFollow, Ago
      <4> QED
        BY <1>1, <1>2, <2>1, <2>3, <4>2, LimiterAssumption
    <3> QED
      BY <3>1, <3>2
  <2> QED
    BY <1>4, <2>1, <2>2, <2>3
<1> QED
  BY <1>5, <1>6 DEF BurstInv

LEMMA StepBurst == LimiterInv /\ BurstInv /\ [Next]_vars => BurstInv'
<1> SUFFICES ASSUME LimiterInv, BurstInv, [Next]_vars PROVE BurstInv'
  OBVIOUS
<1>t. /\ allowed \in Seq(Nat) /\ now \in Nat /\ expiresAt \in Nat /\ count \in 0..Limit
      /\ Len(allowed) \in Nat /\ \A i \in 1..Len(allowed) : allowed[i] \in Nat
  BY DEF LimiterInv, TypeOK
<1>1. CASE Counted
  BY <1>1, CountedBurst
<1>2. ASSUME NEW c \in Clients, Peek(c) \/ Leave(c) PROVE BurstInv'
  BY <1>2 DEF Peek, Leave, BurstInv, WindowsFollow, BurstBound, InForce, Ago
<1>3. ASSUME NEW c \in Clients, Fail(c) \/ Succeed(c) PROVE BurstInv'
  <2>1. style = "guarded" /\ UNCHANGED <<allowed, style>>
    BY <1>3 DEF LimiterInv, TypeOK, Unguarded, Fail, Succeed
  <2>2. allowed' = <<>> /\ Len(allowed') = 0
    BY <2>1 DEF BurstInv, WindowsFollow
  <2> QED
    BY <2>2, LimiterAssumption DEF BurstInv, WindowsFollow, BurstBound
<1>4. CASE Cleanup
  <2>1. /\ UNCHANGED <<allowed, style, now>> /\ ~InForce /\ ~InForce'
    BY <1>t, <1>4 DEF Cleanup, Expired, Reset, InForce
  <2> QED
    BY <2>1 DEF BurstInv, WindowsFollow, BurstBound, Ago
<1>5. CASE Tick
  <2>1. /\ UNCHANGED <<allowed, style, count, expiresAt>> /\ now' = now + 1
        /\ InForce' => InForce
        /\ InForce /\ ~InForce' => expiresAt < now'
    BY <1>t, <1>5 DEF Tick, InForce
  <2>2. BurstBound'
    BY <2>1 DEF BurstInv, BurstBound
  <2>3. ASSUME ~InForce', NEW i \in 1..Len(allowed), i + Limit <= Len(allowed)
        PROVE  Ago(i)' < now'
    <3>1. CASE ~InForce
      BY <1>t, <2>1, <2>3, <3>1, LimiterAssumption DEF BurstInv, WindowsFollow, Ago
    <3>2. CASE InForce
      <4>1. i + count <= Len(allowed)
        BY <1>t, <2>3, LimiterAssumption
      <4> QED
        BY <1>t, <2>1, <2>3, <3>2, <4>1, LimiterAssumption DEF BurstInv, WindowsFollow, Ago
    <3> QED
      BY <3>1, <3>2
  <2>4. \A i \in 1..Len(allowed) : allowed[i] <= now'
    BY <1>t, <2>1 DEF BurstInv, WindowsFollow
  <2> QED
    BY <2>1, <2>2, <2>3, <2>4 DEF BurstInv, WindowsFollow, Ago
<1>6. CASE UNCHANGED vars
  BY <1>6 DEF vars, BurstInv, WindowsFollow, BurstBound, InForce, Ago
<1> QED
  BY <1>1, <1>2, <1>3, <1>4, <1>5, <1>6 DEF Next

\* A burst of counted calls is at most two full windows.
THEOREM BurstsBounded == Spec => []BurstBound
<1>1. Init => BurstInv
  BY LimiterAssumption DEF Init, BurstInv, WindowsFollow, BurstBound
<1>2. BurstInv => BurstBound
  BY DEF BurstInv
<1> QED
  BY <1>1, <1>2, LimiterInvariant, StepBurst, PTL DEF Spec

-----------------------------------------------------------------------------
(* Places in an order: keys first, then the primary key                    *)

\* The order of rows under keys k, the rows of a listing L ahead of r, how many
\* they are, and the rows with at least o others ahead.
Precedes(k, a, b) == k[a] < k[b] \/ (k[a] = k[b] /\ a < b)
Ahead(k, L, r)    == {a \in L : Precedes(k, a, r)}
Place(k, L, r)    == Cardinality(Ahead(k, L, r))
Beyond(k, L, o)   == {r \in L : Place(k, L, r) >= o}

KeyMaps == [Rows -> Nat]

\* Every set of rows is finite.
LEMMA RowsFinite ==
  ASSUME NEW L \in SUBSET Rows
  PROVE  IsFiniteSet(L) /\ Cardinality(L) \in Nat
<1>1. NumRows \in Int /\ 1 \in Int
  BY ListingsAssumption
<1>2. IsFiniteSet(Rows)
  BY <1>1, FS_Interval DEF Rows
<1> QED
  BY <1>2, FS_Subset, FS_CardinalityType

\* 0..(n - 1) has n members.
LEMMA CountBelow ==
  ASSUME NEW n \in Nat
  PROVE  IsFiniteSet(0..(n - 1)) /\ Cardinality(0..(n - 1)) = n
<1>1. 0 \in Int /\ n - 1 \in Int
  OBVIOUS
<1>2. /\ IsFiniteSet(0..(n - 1))
      /\ Cardinality(0..(n - 1)) = IF 0 > n - 1 THEN 0 ELSE n - 1 - 0 + 1
  BY <1>1, FS_Interval
<1> QED
  BY <1>2

\* A set of rows that is cut in two has as many as its parts together.
LEMMA CountParts ==
  ASSUME NEW P \in SUBSET Rows, NEW Q \in SUBSET Rows, P \cap Q = {}
  PROVE  Cardinality(P \cup Q) = Cardinality(P) + Cardinality(Q)
<1>1. IsFiniteSet(P) /\ IsFiniteSet(Q) /\ Cardinality(P) \in Nat /\ Cardinality(Q) \in Nat
  BY RowsFinite
<1>2. Cardinality(P \cup Q) = Cardinality(P) + Cardinality(Q) - Cardinality(P \cap Q)
  BY <1>1, FS_Union
<1>3. Cardinality(P \cap Q) = 0
  BY FS_EmptySet
<1> QED
  BY <1>1, <1>2, <1>3

\* A set covered by two has at most as many as these together.
LEMMA CountCover ==
  ASSUME NEW C, NEW P \in SUBSET Rows, NEW Q \in SUBSET Rows, C \subseteq P \cup Q
  PROVE  Cardinality(C) <= Cardinality(P) + Cardinality(Q)
<1>1. /\ IsFiniteSet(P) /\ Cardinality(P) \in Nat
      /\ IsFiniteSet(Q \ P) /\ Cardinality(Q \ P) \in Nat
      /\ IsFiniteSet(Q) /\ Cardinality(Q) \in Nat
      /\ IsFiniteSet(P \cup Q) /\ Cardinality(P \cup Q) \in Nat
  <2>1. Q \ P \in SUBSET Rows /\ P \cup Q \in SUBSET Rows
    OBVIOUS
  <2> QED
    BY <2>1, RowsFinite
<1>2. Cardinality(P \cup Q) = Cardinality(P) + Cardinality(Q \ P)
  <2>1. P \cup Q = P \cup (Q \ P) /\ P \cap (Q \ P) = {} /\ Q \ P \in SUBSET Rows
    OBVIOUS
  <2> QED
    BY <2>1, CountParts
<1>3. Cardinality(Q \ P) <= Cardinality(Q)
  BY <1>1, FS_Subset
<1>4. Cardinality(C) <= Cardinality(P \cup Q) /\ C \in SUBSET Rows
  BY <1>1, FS_Subset
<1>5. Cardinality(C) \in Nat
  BY <1>4, RowsFinite
<1> QED
  BY <1>1, <1>2, <1>3, <1>4, <1>5

\* A place is a natural number.
LEMMA PlaceType ==
  ASSUME NEW k, NEW L \in SUBSET Rows, NEW r
  PROVE  Place(k, L, r) \in Nat /\ Ahead(k, L, r) \in SUBSET L
<1>1. Ahead(k, L, r) \in SUBSET L
  BY DEF Ahead
<1>2. Ahead(k, L, r) \in SUBSET Rows
  BY <1>1
<1> QED
  BY <1>1, <1>2, RowsFinite DEF Place

\* The primary key makes the order of any keys a strict total order of the rows.
LEMMA PrecedesIsOrder ==
  ASSUME NEW k \in KeyMaps, NEW a \in Rows, NEW b \in Rows, NEW c \in Rows
  PROVE  /\ ~Precedes(k, a, a)
         /\ a # b => Precedes(k, a, b) \/ Precedes(k, b, a)
         /\ Precedes(k, a, b) /\ Precedes(k, b, c) => Precedes(k, a, c)
<1>1. k[a] \in Nat /\ k[b] \in Nat /\ k[c] \in Nat /\ a \in Int /\ b \in Int /\ c \in Int
  BY ListingsAssumption DEF KeyMaps, Rows
<1> QED
  BY <1>1 DEF Precedes

\* Whoever precedes another has fewer rows ahead.
LEMMA PlacesOrdered ==
  ASSUME NEW k \in KeyMaps, NEW L \in SUBSET Rows, NEW a \in L, NEW b \in Rows,
         Precedes(k, a, b)
  PROVE  Place(k, L, a) < Place(k, L, b)
<1> DEFINE A == Ahead(k, L, a)
           B == Ahead(k, L, b)
<1>1. A \in SUBSET (B \ {a})
  BY PrecedesIsOrder DEF Ahead
<1>2. a \in B
  BY DEF Ahead
<1>3. /\ A \in SUBSET Rows /\ B \in SUBSET Rows
      /\ IsFiniteSet(B) /\ IsFiniteSet(A)
      /\ Cardinality(B) \in Nat /\ Cardinality(A) \in Nat
  BY PlaceType, RowsFinite
<1>4. IsFiniteSet(B \ {a}) /\ Cardinality(B \ {a}) = Cardinality(B) - 1
  BY <1>2, <1>3, FS_RemoveElement
<1>5. Cardinality(A) <= Cardinality(B \ {a})
  BY <1>1, <1>4, FS_Subset
<1> QED
  BY <1>3, <1>4, <1>5 DEF Place

\* The last place of a listing is below its length.
LEMMA PlaceBelow ==
  ASSUME NEW k \in KeyMaps, NEW L \in SUBSET Rows, NEW r \in L
  PROVE  Place(k, L, r) < Cardinality(L)
<1>1. Ahead(k, L, r) \in SUBSET (L \ {r})
  BY PrecedesIsOrder DEF Ahead
<1>2. IsFiniteSet(L) /\ Cardinality(L) \in Nat
  BY RowsFinite
<1>3. IsFiniteSet(L \ {r}) /\ Cardinality(L \ {r}) = Cardinality(L) - 1
  BY <1>2, FS_RemoveElement
<1>4. Cardinality(Ahead(k, L, r)) <= Cardinality(L \ {r})
  BY <1>1, <1>3, FS_Subset
<1> QED
  BY <1>2, <1>3, <1>4, PlaceType DEF Place

\* The places of a listing are numbered without gaps.
LEMMA PlacesFilled ==
  ASSUME NEW k \in KeyMaps, NEW L \in SUBSET Rows,
         NEW i \in Nat, i < Cardinality(L)
  PROVE  \E r \in L : Place(k, L, r) = i
<1> DEFINE n == Cardinality(L)
           T == 0..(n - 1)
           f == [r \in L |-> Place(k, L, r)]
<1>1. IsFiniteSet(L) /\ n \in Nat
  BY RowsFinite
<1>2. IsFiniteSet(T) /\ Cardinality(T) = n
  BY <1>1, CountBelow
<1>3. ASSUME NEW r \in L PROVE Place(k, L, r) \in T
  <2>1. Place(k, L, r) \in Nat
    BY PlaceType
  <2>2. Place(k, L, r) < n
    BY PlaceBelow
  <2> QED
    BY <1>1, <2>1, <2>2
<1>4. f \in [L -> T]
  BY <1>3
<1>5. ASSUME NEW a \in L, NEW b \in L, f[a] = f[b] PROVE a = b
  <2>1. Place(k, L, a) = Place(k, L, b) /\ Place(k, L, a) \in Nat
    BY <1>5, PlaceType
  <2>2. a \in Rows /\ b \in Rows
    OBVIOUS
  <2> QED
    BY <2>1, <2>2, PlacesOrdered, PrecedesIsOrder
<1>6. f \in Injection(L, T)
  BY <1>4, <1>5 DEF Injection, IsInjective
<1>7. f \in Surjection(L, T)
  BY <1>1, <1>2, <1>6, FS_Injection
<1>8. i \in T
  BY <1>1
<1> QED
  BY <1>7, <1>8 DEF Surjection

\* If anybody has o others ahead, at least o rows have fewer ahead.
LEMMA HeadIsLong ==
  ASSUME NEW k \in KeyMaps, NEW L \in SUBSET Rows, NEW o \in Nat,
         Beyond(k, L, o) # {}
  PROVE  Cardinality(L \ Beyond(k, L, o)) >= o
<1> DEFINE H == L \ Beyond(k, L, o)
           T == 0..(o - 1)
           f == [r \in H |-> Place(k, L, r)]
<1>1. PICK x \in L : Place(k, L, x) >= o
  BY DEF Beyond
<1>2. IsFiniteSet(H) /\ Cardinality(H) \in Nat /\ Cardinality(L) \in Nat
  BY RowsFinite
<1>3. o < Cardinality(L)
  <2>1. Place(k, L, x) \in Nat /\ Place(k, L, x) < Cardinality(L)
    BY PlaceBelow, PlaceType
  <2> QED
    BY <1>1, <1>2, <2>1
<1>4. \A r \in H : Place(k, L, r) \in T
  BY PlaceType DEF Beyond
<1>5. \A t \in T : \E r \in H : Place(k, L, r) = t
  BY <1>2, <1>3, PlacesFilled DEF Beyond
<1>6. f \in Surjection(H, T)
  BY <1>4, <1>5 DEF Surjection
<1>7. Cardinality(T) <= Cardinality(H)
  BY <1>2, <1>6, FS_Surjection
<1>8. Cardinality(T) = o
  BY CountBelow
<1> QED
  BY <1>7, <1>8, <1>2

\* A listing that changes under a reader: of the rows that were beyond the
\* first o, at most as many are not any more as rows of the old listing have
\* gone or moved; the rows that stay keep their order.
LEMMA BeyondShift ==
  ASSUME NEW k \in KeyMaps, NEW k2 \in KeyMaps,
         NEW L \in SUBSET Rows, NEW L2 \in SUBSET Rows, NEW o \in Nat,
         NEW S, S = {r \in L \cap L2 : k2[r] = k[r]}
  PROVE  Cardinality(Beyond(k, L, o) \ Beyond(k2, L2, o)) <= Cardinality(L \ S)
<1> DEFINE A == Beyond(k, L, o)
           B == Beyond(k2, L2, o)
           H == L \ A
           X == (A \cap S) \ B
           Y == H \cap S
           T == 0..(o - 1)
<1>1. /\ A \in SUBSET Rows /\ A \subseteq L /\ B \in SUBSET Rows /\ S \in SUBSET Rows
      /\ H \in SUBSET Rows /\ X \in SUBSET Rows /\ Y \in SUBSET Rows
  BY DEF Beyond
<1>2. \A Z \in SUBSET Rows : IsFiniteSet(Z) /\ Cardinality(Z) \in Nat
  BY RowsFinite
<1>3. CASE X = {}
  <2>1. A \ B \in SUBSET (L \ S)
    BY <1>1, <1>3
  <2>2. L \ S \in SUBSET Rows
    OBVIOUS
  <2> QED
    BY <2>1, <2>2, <1>2, FS_Subset
<1>4. CASE X # {}
  <2>1. PICK x \in X : TRUE
    BY <1>4
  <2>2. ASSUME NEW x1 \in X, NEW y \in Y PROVE Place(k2, L2, y) < Place(k2, L2, x1)
    <3>1. /\ y \in L /\ x1 \in L /\ y \in L2 /\ x1 \in L2 /\ y \in Rows /\ x1 \in Rows
          /\ k2[y] = k[y] /\ k2[x1] = k[x1]
      BY <1>1
    <3>2. Place(k, L, y) < o /\ Place(k, L, x1) >= o
      BY <3>1, PlaceType DEF Beyond
    <3>3. ~Precedes(k, x1, y)
      BY <3>1, <3>2, PlacesOrdered, PlaceType
    <3>4. Precedes(k, y, x1)
      BY <3>1, <3>2, <3>3, PrecedesIsOrder, PlaceType
    <3>5. Precedes(k2, y, x1)
      BY <3>1, <3>4 DEF Precedes
    <3> QED
      BY <3>1, <3>5, PlacesOrdered
  <2>3. \A x1 \in X : x1 \in L2 /\ Place(k2, L2, x1) \in Nat /\ Place(k2, L2, x1) < o
    BY <1>1, PlaceType DEF Beyond
  <2>4. \A z \in X \cup Y : z \in L2 /\ z \in Rows /\ Place(k2, L2, z) \in T
    <3>1. ASSUME NEW y \in Y PROVE Place(k2, L2, y) \in T
      <4>1. /\ Place(k2, L2, y) < Place(k2, L2, x) /\ Place(k2, L2, x) < o
            /\ Place(k2, L2, y) \in Nat /\ Place(k2, L2, x) \in Nat
        BY <2>1, <2>2, <2>3, PlaceType
      <4> QED
        BY <4>1
    <3>2. \A y \in Y : y \in L2 /\ y \in Rows
      BY <1>1
    <3>3. \A x1 \in X : x1 \in Rows
      BY <1>1
    <3> QED
      BY <2>3, <3>1, <3>2, <3>3
  <2> DEFINE f == [z \in X \cup Y |-> Place(k2, L2, z)]
  <2>5. \A a, b \in X \cup Y : f[a] = f[b] => a = b
    <3> SUFFICES ASSUME NEW a \in X \cup Y, NEW b \in X \cup Y, f[a] = f[b] PROVE a = b
      OBVIOUS
    <3>1. Place(k2, L2, a) = Place(k2, L2, b) /\ Place(k2, L2, a) \in Nat
      BY PlaceType
    <3>2. a \in L2 /\ b \in L2 /\ a \in Rows /\ b \in Rows
      BY <2>4
    <3> QED
      BY <3>1, <3>2, PlacesOrdered, PrecedesIsOrder
  <2>6. f \in Injection(X \cup Y, T)
    BY <2>4, <2>5 DEF Injection, IsInjective
  <2>7. IsFiniteSet(T) /\ Cardinality(T) = o
    BY CountBelow
  <2>8. Cardinality(X \cup Y) <= o
    BY <2>6, <2>7, FS_Injection
  <2>9. Cardinality(X \cup Y) = Cardinality(X) + Cardinality(Y)
    <3>1. X \cap Y = {}
      OBVIOUS
    <3> QED
      BY <3>1, <1>1, CountParts
  <2>10. Cardinality(H) >= o
    <3>1. A # {}
      BY <2>1
    <3> QED
      BY <3>1, HeadIsLong
  <2>11. Cardinality(H \ S) = Cardinality(H) - Cardinality(Y)
    BY <1>1, <1>2, FS_Difference
  <2>12. Cardinality(A \ B) <= Cardinality(X) + Cardinality(A \ S)
    <3> DEFINE W == (A \ S)
    <3>1. A \ B \in SUBSET (X \cup W) /\ X \cap W = {} /\ W \in SUBSET Rows /\ X \cup W \in SUBSET Rows
      BY <1>1
    <3>2. Cardinality(X \cup W) = Cardinality(X) + Cardinality(W)
      BY <3>1, <1>1, CountParts
    <3>3. Cardinality(A \ B) <= Cardinality(X \cup W)
      BY <3>1, <1>2, FS_Subset
    <3> QED
      BY <3>2, <3>3
  <2>13. Cardinality(L \ S) = Cardinality(H \ S) + Cardinality(A \ S)
    <3>1. /\ L \ S = (H \ S) \cup (A \ S) /\ (H \ S) \cap (A \ S) = {}
          /\ H \ S \in SUBSET Rows /\ A \ S \in SUBSET Rows
      BY <1>1
    <3> QED
      BY <3>1, CountParts
  <2>14. /\ Cardinality(X) \in Nat /\ Cardinality(Y) \in Nat /\ Cardinality(H) \in Nat
         /\ Cardinality(H \ S) \in Nat /\ Cardinality(A \ S) \in Nat
         /\ Cardinality(A \ B) \in Nat
    <3>1. H \ S \in SUBSET Rows /\ A \ S \in SUBSET Rows /\ A \ B \in SUBSET Rows
      BY <1>1
    <3> QED
      BY <3>1, <1>1, <1>2
  <2>15. Cardinality(A \ B) <= Cardinality(L \ S)
    <3> HIDE DEF A, B, H, X, Y, T, f
    <3> QED
      BY <2>8, <2>9, <2>10, <2>11, <2>12, <2>13, <2>14
  <2> QED
    BY <2>15
<1> QED
  BY <1>3, <1>4

-----------------------------------------------------------------------------
(* Types                                                                   *)

RowType == [live: BOOLEAN, key: Keys, fits: BOOLEAN, active: BOOLEAN,
            opens: Dates, deadline: Dates, vetted: BOOLEAN]

ListingTypes ==
    /\ listing \in Endpoints
    /\ size \in Sizes
    /\ rows \in [Rows -> RowType]
    /\ day \in Days
    /\ page \in Nat /\ done \in BOOLEAN
    /\ seen \in SUBSET Rows /\ present \in SUBSET Rows
    /\ repeats \in Nat /\ joined \in Nat /\ parted \in Nat
    /\ tied \in BOOLEAN
    /\ changes \in 0..MaxChanges

\* The rows that POST and files create, and the absent one, are rows.
LEMMA RowsTyped ==
  /\ Absent \in RowType
  /\ \A vetted \in BOOLEAN : New(vetted) \in SUBSET RowType
  /\ 1 \in Days
<1>1. 1 \in Keys /\ NoDate \in Dates /\ 1 \in Days
  BY ListingsAssumption DEF Keys, Dates, Days
<1>2. Absent \in RowType
  BY <1>1 DEF Absent, RowType
<1>3. Given \subseteq Dates \X Dates
  BY <1>1, PeriodsAssumption DEF Given
<1>4. ASSUME NEW vetted \in BOOLEAN, NEW row \in New(vetted) PROVE row \in RowType
  <2>1. PICK k \in Keys, f \in Fits, d \in Given :
           row = [live |-> TRUE, key |-> k, fits |-> f, active |-> TRUE,
                  opens |-> d[1], deadline |-> d[2], vetted |-> vetted]
    BY <1>4 DEF New
  <2>2. f \in BOOLEAN
    BY DEF Fits
  <2>3. d[1] \in Dates /\ d[2] \in Dates
    BY <1>3
  <2> QED
    BY <2>1, <2>2, <2>3 DEF RowType
<1> QED
  BY <1>1, <1>2, <1>4

\* What every change of one row writes is a row.
LEMMA RowStep ==
  ASSUME ListingTypes, NEW r \in Rows,
         Create(r) \/ Import(r) \/ Edit(r) \/ PatchDates(r) \/ SetActive(r) \/ Remove(r)
  PROVE  \E row \in RowType : Write(r, row)
<1>1. rows[r] \in RowType
  BY DEF ListingTypes
<1>2. NewKeys(r) \subseteq Keys
  BY <1>1 DEF NewKeys, RowType
<1>3. CASE Create(r)
  BY <1>3, RowsTyped DEF Create
<1>4. CASE Import(r)
  <2>1. PICK row \in New(FALSE), active \in BOOLEAN :
          Write(r, [row EXCEPT !.active = active])
    BY <1>4 DEF Import
  <2>2. row \in RowType
    BY RowsTyped
  <2>3. [row EXCEPT !.active = active] \in RowType
    BY <2>2 DEF RowType
  <2> QED
    BY <2>1, <2>3
<1>5. CASE Edit(r)
  <2>1. PICK key \in NewKeys(r),
             fits \in IF listing.query.refits THEN Fits ELSE {rows[r].fits} :
          Write(r, [rows[r] EXCEPT !.key = key, !.fits = fits])
    BY <1>5 DEF Edit
  <2>2. fits \in BOOLEAN /\ key \in Keys
    BY <1>1, <1>2 DEF Fits, RowType
  <2>3. [rows[r] EXCEPT !.key = key, !.fits = fits] \in RowType
    BY <1>1, <2>2 DEF RowType
  <2> QED
    BY <2>1, <2>3
<1>6. CASE PatchDates(r)
  <2>1. PICK key \in NewKeys(r) :
          LET row == [rows[r] EXCEPT !.key = key] IN
          \/ \E opens, deadline \in Dates :
                Write(r, [row EXCEPT !.opens = opens, !.deadline = deadline,
                                     !.vetted = TRUE])
          \/ \E opens \in Dates : Write(r, [row EXCEPT !.opens = opens, !.vetted = FALSE])
          \/ \E deadline \in Dates :
                Write(r, [row EXCEPT !.deadline = deadline, !.vetted = FALSE])
    BY <1>6 DEF PatchDates
  <2> DEFINE row == [rows[r] EXCEPT !.key = key]
  <2>2. row \in RowType
    BY <1>1, <1>2 DEF RowType
  <2>3. /\ \A opens, deadline \in Dates :
             [row EXCEPT !.opens = opens, !.deadline = deadline, !.vetted = TRUE] \in RowType
        /\ \A opens \in Dates : [row EXCEPT !.opens = opens, !.vetted = FALSE] \in RowType
        /\ \A deadline \in Dates : [row EXCEPT !.deadline = deadline, !.vetted = FALSE] \in RowType
    <3> HIDE DEF row
    <3> QED
      BY <2>2 DEF RowType
  <2> QED
    BY <2>1, <2>3
<1>7. CASE SetActive(r)
  <2>1. [rows[r] EXCEPT !.active = ~@] \in RowType
    BY <1>1 DEF RowType
  <2> QED
    BY <1>7, <2>1 DEF SetActive
<1>8. CASE Remove(r)
  BY <1>8, RowsTyped DEF Remove
<1> QED
  BY <1>3, <1>4, <1>5, <1>6, <1>7, <1>8

\* The types hold in the beginning.
LEMMA InitTyped == WalkInit => ListingTypes
<1> SUFFICES ASSUME WalkInit PROVE ListingTypes
  OBVIOUS
<1>1. rows \in [Rows -> RowType]
  <2>1. {Absent} \cup New(TRUE) \subseteq RowType
    BY RowsTyped
  <2> QED
    BY <2>1 DEF WalkInit
<1>2. day \in Days
  BY RowsTyped DEF WalkInit
<1>3. /\ listing \in Endpoints /\ size \in Sizes
      /\ page = 0 /\ done = FALSE /\ seen = {} /\ repeats = 0
      /\ present = {} /\ tied = FALSE /\ joined = 0 /\ parted = 0 /\ changes = 0
  BY DEF WalkInit
<1>4. 0 \in 0..MaxChanges
  BY ListingsAssumption
<1> QED
  BY <1>1, <1>2, <1>3, <1>4 DEF ListingTypes

\* The places a step goes: a page is fetched, or somebody changes the table.
LEMMA StepKinds ==
  ASSUME ListingTypes, [WalkNext]_listingVars
  PROVE  \/ Fetch
         \/ Walking /\ Changed /\ rows' \in [Rows -> RowType] /\ day' \in Days
         \/ UNCHANGED listingVars
<1>1. ASSUME NEW r \in Rows,
             Create(r) \/ Import(r) \/ Edit(r) \/ PatchDates(r) \/ SetActive(r) \/ Remove(r)
      PROVE  Changed /\ rows' \in [Rows -> RowType] /\ day' \in Days
  <2>1. PICK row \in RowType : Write(r, row)
    BY <1>1, RowStep
  <2>2. rows' \in [Rows -> RowType] /\ day' \in Days
    BY <2>1 DEF Write, ListingTypes
  <2>3. Changed
    BY <1>1 DEF Create, Import, Edit, PatchDates, SetActive, Remove
  <2> QED
    BY <2>2, <2>3
<1>2. ASSUME Midnight
      PROVE  Changed /\ rows' \in [Rows -> RowType] /\ day' \in Days
  BY <1>2, ListingsAssumption DEF Midnight, ListingTypes, Days
<1> QED
  BY <1>1, <1>2 DEF WalkNext

\* What is listed or moved is a row, before and after a step.
LEMMA ListedRows ==
  /\ Listed \in SUBSET Rows
  /\ Listed' \in SUBSET Rows
  /\ Moved \in SUBSET Rows
BY DEF Listed, Moved

\* Every step keeps the types.
LEMMA TypesStep == ListingTypes /\ [WalkNext]_listingVars => ListingTypes'
<1> SUFFICES ASSUME ListingTypes, [WalkNext]_listingVars PROVE ListingTypes'
  OBVIOUS
<1>1. CASE Fetch
  <2>1. PICK breaker \in Breakers :
          /\ seen' = seen \cup PageRows(breaker)
          /\ repeats' = repeats + Cardinality(PageRows(breaker) \cap seen)
          /\ done' \in BOOLEAN
    BY <1>1 DEF Fetch
  <2>2. PageRows(breaker) \in SUBSET Rows
    BY ListedRows DEF PageRows
  <2>3. Cardinality(PageRows(breaker) \cap seen) \in Nat
    <3>1. PageRows(breaker) \cap seen \in SUBSET Rows
      BY <2>2
    <3> QED
      BY <3>1, RowsFinite
  <2>4. present' \in SUBSET Rows /\ tied' \in BOOLEAN /\ page' \in Nat
    BY <1>1, ListedRows DEF Fetch, ListingTypes
  <2>5. UNCHANGED <<listing, size, rows, day, joined, parted, changes>>
    BY <1>1 DEF Fetch, tableVars
  <2> QED
    BY <2>1, <2>2, <2>3, <2>4, <2>5 DEF ListingTypes
<1>2. CASE Walking /\ Changed /\ rows' \in [Rows -> RowType] /\ day' \in Days
  <2>1. /\ Cardinality(Listed' \ Listed) \in Nat /\ Cardinality(Listed \ Listed') \in Nat
        /\ Cardinality(Moved) \in Nat
    <3>1. Listed' \ Listed \in SUBSET Rows /\ Listed \ Listed' \in SUBSET Rows
      BY ListedRows
    <3> QED
      BY <3>1, ListedRows, RowsFinite
  <2>2. joined' \in Nat /\ parted' \in Nat
    BY <1>2, <2>1 DEF Changed, ListingTypes
  <2>3. changes' \in 0..MaxChanges
    BY <1>2, ListingsAssumption DEF Changed, Walking, ListingTypes
  <2>4. UNCHANGED <<listing, size, page, done, seen, repeats, present, tied>>
    BY <1>2 DEF Changed, walkVars
  <2> QED
    BY <1>2, <2>2, <2>3, <2>4 DEF ListingTypes
<1>3. CASE UNCHANGED listingVars
  <2>1. /\ UNCHANGED <<listing, size, rows, day, page, done>>
        /\ UNCHANGED <<seen, repeats, present, joined, parted, tied, changes>>
    BY <1>3 DEF listingVars, tableVars, walkVars
  <2> QED
    BY <2>1 DEF ListingTypes
<1> QED
  BY <1>1, <1>2, <1>3, StepKinds

\* Types of a walk and of the table under it, for every instance.
THEOREM ListingsTyped == WalkSpec => []ListingTypes
<1>1. WalkInit => ListingTypes
  BY InitTyped
<1>2. ListingTypes /\ [WalkNext]_listingVars => ListingTypes'
  BY TypesStep
<1> QED
  BY <1>1, <1>2, PTL DEF WalkSpec

-----------------------------------------------------------------------------
(* The status of an opportunity                                            *)

\* A row whose dates were compared has them in order.
VettedInOrder ==
    \A r \in Rows :
        rows[r].live /\ rows[r].vetted => InOrder(rows[r].opens, rows[r].deadline)

\* No step makes a row count as compared whose dates are out of order.
LEMMA VettedStep ==
  ListingTypes /\ VettedInOrder /\ [WalkNext]_listingVars => VettedInOrder'
<1> SUFFICES ASSUME ListingTypes, VettedInOrder, [WalkNext]_listingVars
             PROVE  VettedInOrder'
  OBVIOUS
<1> DEFINE Fine(row) == row.live /\ row.vetted => InOrder(row.opens, row.deadline)
<1>1. ASSUME NEW r \in Rows, NEW row, Write(r, row), Fine(row)
      PROVE  VettedInOrder'
  <2>1. rows' = [rows EXCEPT ![r] = row]
    BY <1>1 DEF Write
  <2> QED
    BY <1>1, <2>1 DEF VettedInOrder, ListingTypes
<1>2. ASSUME NEW r \in Rows, Create(r) PROVE VettedInOrder'
  <2>1. PICK row \in New(TRUE) : Write(r, row)
    BY <1>2 DEF Create
  <2>2. InOrder(row.opens, row.deadline)
    BY DEF New
  <2> QED
    BY <1>1, <2>1, <2>2
<1>3. ASSUME NEW r \in Rows, Import(r) PROVE VettedInOrder'
  <2>1. PICK row \in New(FALSE), active \in BOOLEAN :
          Write(r, [row EXCEPT !.active = active])
    BY <1>3 DEF Import
  <2>2. [row EXCEPT !.active = active].vetted = FALSE
    BY DEF New
  <2> QED
    BY <1>1, <2>1, <2>2
<1>4. ASSUME NEW r \in Rows, Edit(r) PROVE VettedInOrder'
  <2>1. PICK key, fits : Write(r, [rows[r] EXCEPT !.key = key, !.fits = fits])
    BY <1>4 DEF Edit
  <2> DEFINE row == [rows[r] EXCEPT !.key = key, !.fits = fits]
  <2>2. /\ row.live = rows[r].live /\ row.vetted = rows[r].vetted
        /\ row.opens = rows[r].opens /\ row.deadline = rows[r].deadline
    BY DEF ListingTypes, RowType
  <2>3. Fine(row)
    BY <2>2 DEF VettedInOrder
  <2> QED
    BY <1>1, <2>1, <2>3
<1>5. ASSUME NEW r \in Rows, PatchDates(r) PROVE VettedInOrder'
  <2>1. PICK key \in NewKeys(r) :
          LET row == [rows[r] EXCEPT !.key = key] IN
          \/ \E opens, deadline \in Dates :
                /\ Compared(opens, deadline)
                /\ Write(r, [row EXCEPT !.opens = opens, !.deadline = deadline,
                                        !.vetted = TRUE])
          \/ \E opens \in Dates : Write(r, [row EXCEPT !.opens = opens, !.vetted = FALSE])
          \/ \E deadline \in Dates :
                Write(r, [row EXCEPT !.deadline = deadline, !.vetted = FALSE])
    BY <1>5 DEF PatchDates
  <2> DEFINE row == [rows[r] EXCEPT !.key = key]
  <2>2. row = [rows[r] EXCEPT !.key = key] /\ row \in [live: BOOLEAN, key: {key}, fits: BOOLEAN,
          active: BOOLEAN, opens: Dates, deadline: Dates, vetted: BOOLEAN]
    BY DEF ListingTypes, RowType
  <2> HIDE DEF row
  <2>3. ASSUME NEW opens \in Dates, NEW deadline \in Dates, Compared(opens, deadline)
        PROVE  Fine([row EXCEPT !.opens = opens, !.deadline = deadline, !.vetted = TRUE])
    BY <2>2, <2>3 DEF Compared, InOrder
  <2>4. \A opens \in Dates : Fine([row EXCEPT !.opens = opens, !.vetted = FALSE])
    BY <2>2
  <2>5. \A deadline \in Dates : Fine([row EXCEPT !.deadline = deadline, !.vetted = FALSE])
    BY <2>2
  <2>6. CASE \E opens, deadline \in Dates :
                /\ Compared(opens, deadline)
                /\ Write(r, [row EXCEPT !.opens = opens, !.deadline = deadline,
                                        !.vetted = TRUE])
    BY <1>1, <2>3, <2>6
  <2>7. CASE \E opens \in Dates : Write(r, [row EXCEPT !.opens = opens, !.vetted = FALSE])
    BY <1>1, <2>4, <2>7
  <2>8. CASE \E deadline \in Dates :
                Write(r, [row EXCEPT !.deadline = deadline, !.vetted = FALSE])
    BY <1>1, <2>5, <2>8
  <2> QED
    BY <2>1, <2>6, <2>7, <2>8 DEF row
<1>6. ASSUME NEW r \in Rows, SetActive(r) PROVE VettedInOrder'
  <2> DEFINE row == [rows[r] EXCEPT !.active = ~@]
  <2>1. Write(r, row)
    BY <1>6 DEF SetActive
  <2>2. /\ row.live = rows[r].live /\ row.vetted = rows[r].vetted
        /\ row.opens = rows[r].opens /\ row.deadline = rows[r].deadline
    BY DEF ListingTypes, RowType
  <2>3. Fine(row)
    BY <2>2 DEF VettedInOrder
  <2> QED
    BY <1>1, <2>1, <2>3
<1>7. ASSUME NEW r \in Rows, Remove(r) PROVE VettedInOrder'
  <2>1. Write(r, Absent)
    BY <1>7 DEF Remove
  <2>2. Absent.live = FALSE
    BY DEF Absent
  <2> QED
    BY <1>1, <2>1, <2>2
<1>8. ASSUME UNCHANGED rows PROVE VettedInOrder'
  BY <1>8 DEF VettedInOrder
<1>9. Fetch \/ Midnight \/ UNCHANGED listingVars => UNCHANGED rows
  BY DEF Fetch, Midnight, listingVars, tableVars
<1> HIDE DEF Fine
<1> QED
  BY <1>2, <1>3, <1>4, <1>5, <1>6, <1>7, <1>8, <1>9 DEF WalkNext

\* The rows before the walk were accepted by POST.
LEMMA VettedInit == WalkInit => VettedInOrder
<1> SUFFICES ASSUME WalkInit, NEW r \in Rows, rows[r].live
             PROVE  InOrder(rows[r].opens, rows[r].deadline)
  BY DEF VettedInOrder
<1>1. rows[r] \in {Absent} \cup New(TRUE)
  BY DEF WalkInit
<1>2. rows[r] # Absent
  BY DEF Absent
<1> QED
  BY <1>1, <1>2 DEF New

\* Dates in order leave a row one status, whatever the day.
LEMMA OneStatus ==
  ASSUME ListingTypes, NEW row \in RowType, InOrder(row.opens, row.deadline)
  PROVE  /\ \A s \in {"open", "upcoming", "closed", "withdrawn"} :
               Filter(s, row) <=> ShownStatus(row) = s
         /\ Filter("open_or_upcoming", row) <=> ShownStatus(row) \in {"open", "upcoming"}
         /\ CountedOpen(row) <=> ShownStatus(row) = "open"
<1>1. day \in Nat /\ row.opens \in Nat /\ row.deadline \in Nat /\ row.active \in BOOLEAN
  BY ListingsAssumption DEF ListingTypes, Days, RowType, Dates, NoDate
<1>2. ~Opened(row) => ~Lapsed(row)
  BY <1>1 DEF Opened, Lapsed, InOrder, NoDate
<1>3. CASE ~row.active
  <2>1. ShownStatus(row) = "withdrawn"
    BY <1>3 DEF ShownStatus
  <2> QED
    BY <1>3, <2>1 DEF Filter, CountedOpen
<1>4. CASE row.active /\ ~Opened(row)
  <2>1. ShownStatus(row) = "upcoming"
    BY <1>4 DEF ShownStatus
  <2> QED
    BY <1>2, <1>4, <2>1 DEF Filter, CountedOpen
<1>5. CASE row.active /\ Opened(row) /\ Lapsed(row)
  <2>1. ShownStatus(row) = "closed"
    BY <1>5 DEF ShownStatus
  <2> QED
    BY <1>5, <2>1 DEF Filter, CountedOpen
<1>6. CASE row.active /\ Opened(row) /\ ~Lapsed(row)
  <2>1. ShownStatus(row) = "open"
    BY <1>6 DEF ShownStatus
  <2> QED
    BY <1>6, <2>1 DEF Filter, CountedOpen
<1> QED
  BY <1>1, <1>3, <1>4, <1>5, <1>6

\* For any number of rows, dates and days: the status a response shows, the
\* filters of the listings and the count on the dashboard agree on every row
\* whose dates were compared when they were written.
THEOREM StatusRulesAgree == WalkSpec => []StatusesAgree
<1> DEFINE Inv == ListingTypes /\ VettedInOrder
<1>1. WalkInit => Inv
  BY InitTyped, VettedInit
<1>2. Inv /\ [WalkNext]_listingVars => Inv'
  BY TypesStep, VettedStep
<1>3. Inv => StatusesAgree
  <2> SUFFICES ASSUME Inv, NEW r \in Rows, rows[r].live, rows[r].vetted
               PROVE  /\ \A s \in {"open", "upcoming", "closed", "withdrawn"} :
                            Filter(s, rows[r]) <=> ShownStatus(rows[r]) = s
                      /\ Filter("open_or_upcoming", rows[r])
                            <=> ShownStatus(rows[r]) \in {"open", "upcoming"}
                      /\ CountedOpen(rows[r]) <=> ShownStatus(rows[r]) = "open"
    BY DEF StatusesAgree
  <2>1. rows[r] \in RowType /\ InOrder(rows[r].opens, rows[r].deadline)
    BY DEF ListingTypes, VettedInOrder
  <2> QED
    BY <2>1, OneStatus
<1> QED
  BY <1>1, <1>2, <1>3, PTL DEF WalkSpec

-----------------------------------------------------------------------------
(* What a walk misses and repeats                                          *)

\* The sort column as a function, and the rows of the pages still to come.
KeyOf == [r \in Rows |-> rows[r].key]
Rest  == Beyond(KeyOf, Listed, Offset)

\* Rows listed at the start that have not been shown are still to come, but
\* for one for each row that parted.
MissedInv == ~tied => Cardinality((present \ seen) \ Rest) <= parted

\* Rows shown before that are to come again have joined, or been pushed back by
\* one that joined, and every one already repeated has used up another.
RepeatInv == ~tied => Cardinality(seen \cap Rest) + repeats <= joined

\* After the last page nothing is to come.
DoneInv == done /\ ~tied => Rest = {}

WalkInv == ListingTypes /\ MissedInv /\ RepeatInv /\ DoneInv

\* The sort column, the offset and the page size are numbers; no page is empty by its size.
LEMMA KeysTyped ==
  ASSUME ListingTypes
  PROVE  KeyOf \in KeyMaps /\ Offset \in Nat /\ size \in Nat /\ size > 0 /\ Rest \in SUBSET Rows
<1>1. \A r \in Rows : rows[r].key \in Nat
  BY ListingsAssumption DEF ListingTypes, RowType, Keys
<1>2. size \in Nat /\ size > 0
  BY ListingsAssumption DEF ListingTypes
<1>3. page * size \in Nat
  BY <1>2 DEF ListingTypes
<1> QED
  BY <1>1, <1>2, <1>3, ListedRows DEF KeyOf, KeyMaps, Offset, Rest, Beyond

\* Unless an order has ties, a page holds the next rows in the order of keys.
LEMMA PageIsNext ==
  ASSUME ListingTypes, listing.query.unique \/ ~Ties, NEW breaker \in Breakers
  PROVE  PageRows(breaker) = Rest \ Beyond(KeyOf, Listed, Offset + size)
<1>1. ASSUME NEW a \in Listed, NEW b \in Listed
      PROVE  Before(breaker, a, b) <=> Precedes(KeyOf, a, b)
  <2>1. a \in Rows /\ b \in Rows /\ KeyOf[a] = rows[a].key /\ KeyOf[b] = rows[b].key
    BY ListedRows DEF KeyOf
  <2>2. CASE listing.query.unique
    <3>1. breaker = [r \in Rows |-> r]
      BY <2>2 DEF Breakers
    <3> QED
      BY <2>1, <3>1 DEF Before, Precedes
  <2>3. CASE ~listing.query.unique
    <3>1. breaker \in [Rows -> Rows]
      BY <2>3 DEF Breakers
    <3>2. rows[a].key = rows[b].key => a = b
      BY <2>3 DEF Ties
    <3>3. breaker[a] \in Int /\ a \in Int
      BY <2>1, <3>1, ListingsAssumption DEF Rows
    <3> QED
      BY <2>1, <3>2, <3>3 DEF Before, Precedes
  <2> QED
    BY <2>2, <2>3
<1>2. ASSUME NEW r \in Listed
      PROVE  Cardinality({a \in Listed : Before(breaker, a, r)}) = Place(KeyOf, Listed, r)
  <2>1. {a \in Listed : Before(breaker, a, r)} = Ahead(KeyOf, Listed, r)
    BY <1>1 DEF Ahead
  <2> QED
    BY <2>1 DEF Place
<1>3. \A r \in Listed : Place(KeyOf, Listed, r) \in Nat
  BY ListedRows, PlaceType
<1>4. PageRows(breaker)
        = {r \in Listed : Place(KeyOf, Listed, r) \in Offset..(Offset + size - 1)}
  BY <1>2 DEF PageRows
<1> QED
  BY <1>3, <1>4, KeysTyped DEF Rest, Beyond

\* A last page that the metadata names ends at or after the last row.
LEMMA LastPageCovers ==
  ASSUME NEW n \in Nat, NEW s \in Nat, s > 0, NEW q \in Nat,
         q >= (n + s - 1) \div s
  PROVE  n <= q * s
<1> DEFINE d == (n + s - 1) \div s
           m == (n + s - 1) % s
<1>1. d \in Int /\ m \in 0..(s - 1) /\ n + s - 1 = s * d + m
  OBVIOUS
<1>2. q - d \in Nat /\ q - d >= 0
  BY <1>1
<1>3. (q - d) * s >= 0
  BY <1>2
<1>4. q * s >= d * s
  BY <1>1, <1>3
<1>5. s * d = d * s
  BY <1>1
<1> HIDE DEF d, m
<1> QED
  BY <1>1, <1>4, <1>5

\* A page: what it shows is what it takes from the rest, and the metadata call it
\* the last only when the rest is empty.
LEMMA FetchKeeps ==
  ASSUME WalkInv, Fetch, ListingTypes'
  PROVE  MissedInv' /\ RepeatInv' /\ DoneInv'
<1> SUFFICES ASSUME ~tied' PROVE /\ Cardinality((present' \ seen') \ Rest') <= parted'
                                 /\ Cardinality(seen' \cap Rest') + repeats' <= joined'
                                 /\ done' => Rest' = {}
  BY DEF MissedInv, RepeatInv, DoneInv
<1> DEFINE Next2 == Beyond(KeyOf, Listed, Offset + size)
<1>1. ListingTypes /\ ~tied /\ (listing.query.unique \/ ~Ties)
  BY DEF WalkInv, Fetch
<1>2. /\ Cardinality((present \ seen) \ Rest) <= parted
      /\ Cardinality(seen \cap Rest) + repeats <= joined
  BY <1>1 DEF WalkInv, MissedInv, RepeatInv
<1>3. UNCHANGED <<listing, size, rows, day, joined, parted>> /\ page' = page + 1
  BY DEF Fetch, tableVars
<1>4. Rest' = Next2
  <2>1. KeyOf' = KeyOf /\ Listed' = Listed
    BY <1>3 DEF KeyOf, Listed, Filter, Opened, Lapsed
  <2>2. Offset' = Offset + size
    <3>1. page \in Nat /\ size \in Nat
      BY <1>1, KeysTyped DEF ListingTypes
    <3>2. (page + 1) * size = page * size + size
      BY <3>1
    <3> QED
      BY <1>3, <3>2 DEF Offset
  <2> QED
    BY <2>1, <2>2 DEF Rest
<1>5. PICK shown :
        /\ shown = Rest \ Next2
        /\ seen' = seen \cup shown
        /\ repeats' = repeats + Cardinality(shown \cap seen)
        /\ done' = (page + 1 >= IF shown = {} THEN 0 ELSE LastPage(Cardinality(Listed)))
  BY <1>1, PageIsNext DEF Fetch
<1>6. /\ Next2 \subseteq Rest /\ Rest \in SUBSET Rows /\ Next2 \in SUBSET Rows
      /\ \A r \in Listed : r \in Rest \/ Place(KeyOf, Listed, r) < Offset
  <2>1. \A r \in Listed : Place(KeyOf, Listed, r) \in Nat
    BY ListedRows, PlaceType
  <2> QED
    BY <1>1, <2>1, KeysTyped, ListedRows DEF Rest, Beyond
<1>7. /\ seen \in SUBSET Rows /\ present \in SUBSET Rows
      /\ joined \in Nat /\ parted \in Nat /\ repeats \in Nat
  BY <1>1 DEF ListingTypes
<1>8. Cardinality((present' \ seen') \ Rest') <= parted'
  <2>1. CASE page = 0
    <3>1. Offset = 0
      BY <1>1, <2>1, KeysTyped DEF Offset, ListingTypes
    <3>2. Listed \subseteq Rest
      BY <3>1, ListedRows, PlaceType DEF Rest, Beyond
    <3>3. present' = Listed
      BY <2>1 DEF Fetch
    <3>4. (present' \ seen') \ Rest' = {}
      BY <3>2, <3>3, <1>4, <1>5
    <3> QED
      BY <3>4, <1>3, <1>7, FS_EmptySet
  <2>2. CASE page # 0
    <3>1. present' = present
      BY <2>2 DEF Fetch
    <3>2. (present' \ seen') \ Rest' \in SUBSET ((present \ seen) \ Rest)
      BY <3>1, <1>4, <1>5
    <3>3. (present \ seen) \ Rest \in SUBSET Rows
      BY <1>7
    <3>4. Cardinality((present' \ seen') \ Rest') <= Cardinality((present \ seen) \ Rest)
      BY <3>2, <3>3, RowsFinite, FS_Subset
    <3>5. (present' \ seen') \ Rest' \in SUBSET Rows
      BY <3>2, <3>3
    <3> QED
      BY <3>3, <3>4, <3>5, <1>2, <1>3, <1>7, RowsFinite
  <2> QED
    BY <2>1, <2>2
<1>9. Cardinality(seen' \cap Rest') + repeats' <= joined'
  <2> DEFINE P == shown \cap seen
             Q == seen \cap Next2
  <2>1. P \in SUBSET Rows /\ Q \in SUBSET Rows /\ P \cap Q = {}
    BY <1>5, <1>6, <1>7
  <2>2. seen \cap Rest = P \cup Q
    BY <1>5, <1>6
  <2>3. seen' \cap Rest' = Q
    BY <1>4, <1>5, <1>6
  <2>4. Cardinality(seen \cap Rest) = Cardinality(P) + Cardinality(Q)
    BY <2>1, <2>2, CountParts
  <2>5. Cardinality(P) \in Nat /\ Cardinality(Q) \in Nat
    BY <2>1, RowsFinite
  <2>6. Cardinality(Q) + (repeats + Cardinality(P)) <= joined
    <3> HIDE DEF P, Q
    <3> QED
      BY <2>4, <2>5, <1>2, <1>7
  <2> QED
    BY <2>3, <2>6, <1>3, <1>5
<1>10. ASSUME done' PROVE Rest' = {}
  <2> SUFFICES ASSUME NEW x \in Next2 PROVE FALSE
    BY <1>4
  <2>1. x \in Listed /\ Place(KeyOf, Listed, x) >= Offset + size
    BY DEF Beyond
  <2>2. Place(KeyOf, Listed, x) < Cardinality(Listed) /\ Place(KeyOf, Listed, x) \in Nat
    BY <2>1, <1>1, ListedRows, KeysTyped, PlaceBelow, PlaceType
  <2>3. Cardinality(Listed) \in Nat
    BY ListedRows, RowsFinite
  <2>4. Offset + size < Cardinality(Listed) /\ Offset < Cardinality(Listed)
    BY <2>1, <2>2, <2>3, <1>1, KeysTyped
  <2>5. shown # {}
    <3>1. PICK y \in Listed : Place(KeyOf, Listed, y) = Offset
      BY <2>4, <1>1, ListedRows, KeysTyped, PlacesFilled
    <3>2. y \in Rest /\ y \notin Next2
      BY <3>1, <1>1, KeysTyped DEF Rest, Beyond
    <3> QED
      BY <3>2, <1>5
  <2>6. page + 1 >= LastPage(Cardinality(Listed))
    BY <1>5, <1>10, <2>5
  <2>7. Cardinality(Listed) <= (page + 1) * size
    BY <2>3, <2>6, <1>1, KeysTyped, LastPageCovers DEF LastPage, ListingTypes
  <2>8. (page + 1) * size = Offset + size
    BY <1>1, KeysTyped DEF Offset, ListingTypes
  <2> QED
    BY <2>3, <2>4, <2>7, <2>8, <1>1, KeysTyped
<1> QED
  BY <1>8, <1>9, <1>10

\* A change of the table, whichever it is: as many rows leave the rest unseen, or
\* come back into it seen, as rows have parted or joined.
LEMMA ChangeKeeps ==
  ASSUME WalkInv, Walking, Changed, ListingTypes'
  PROVE  MissedInv' /\ RepeatInv' /\ DoneInv'
<1> SUFFICES ASSUME ~tied' PROVE /\ Cardinality((present' \ seen') \ Rest') <= parted'
                                 /\ Cardinality(seen' \cap Rest') + repeats' <= joined'
                                 /\ ~done'
  BY DEF MissedInv, RepeatInv, DoneInv
<1>1. /\ UNCHANGED <<listing, size, page, done, seen, repeats, present, tied>>
      /\ joined' = joined + Cardinality(Listed' \ Listed) + Cardinality(Moved)
      /\ parted' = parted + Cardinality(Listed \ Listed') + Cardinality(Moved)
  BY DEF Changed, walkVars
<1>2. /\ ListingTypes /\ ~tied /\ ~done
      /\ Cardinality((present \ seen) \ Rest) <= parted
      /\ Cardinality(seen \cap Rest) + repeats <= joined
  BY <1>1 DEF WalkInv, MissedInv, RepeatInv, Walking
<1>3. /\ seen \in SUBSET Rows /\ present \in SUBSET Rows
      /\ joined \in Nat /\ parted \in Nat /\ repeats \in Nat
  BY <1>2 DEF ListingTypes
<1>4. KeyOf \in KeyMaps /\ KeyOf' \in KeyMaps /\ Offset \in Nat /\ Offset' = Offset
  BY <1>1, <1>2, KeysTyped DEF KeyOf, KeyMaps, Offset, ListingTypes, RowType, Keys
<1> DEFINE S  == {r \in Listed \cap Listed' : (KeyOf')[r] = KeyOf[r]}
           S2 == {r \in Listed' \cap Listed : KeyOf[r] = (KeyOf')[r]}
<1>5. /\ Rest' = Beyond(KeyOf', Listed', Offset)
      /\ Rest \in SUBSET Rows /\ Rest' \in SUBSET Rows
  BY <1>4, ListedRows DEF Rest, Beyond
<1>6. Cardinality(Rest \ Rest') <= Cardinality(Listed \ S)
  BY <1>4, <1>5, ListedRows, BeyondShift DEF Rest
<1>7. Cardinality(Rest' \ Rest) <= Cardinality(Listed' \ S2)
  BY <1>4, <1>5, ListedRows, BeyondShift DEF Rest
<1>8. Moved = {r \in Listed \cap Listed' : (KeyOf')[r] # KeyOf[r]}
  BY ListedRows DEF Moved, KeyOf
<1>9. Cardinality(Listed \ S) = Cardinality(Listed \ Listed') + Cardinality(Moved)
  <2>1. /\ Listed \ S = (Listed \ Listed') \cup Moved
        /\ (Listed \ Listed') \cap Moved = {}
        /\ Listed \ Listed' \in SUBSET Rows
    BY <1>8, ListedRows
  <2> QED
    BY <2>1, ListedRows, CountParts
<1>10. Cardinality(Listed' \ S2) = Cardinality(Listed' \ Listed) + Cardinality(Moved)
  <2>1. /\ Listed' \ S2 = (Listed' \ Listed) \cup Moved
        /\ (Listed' \ Listed) \cap Moved = {}
        /\ Listed' \ Listed \in SUBSET Rows
    BY <1>8, ListedRows
  <2> QED
    BY <2>1, ListedRows, CountParts
<1>11. parted' = parted + Cardinality(Listed \ S) /\ joined' = joined + Cardinality(Listed' \ S2)
  <2>1. /\ Cardinality(Listed' \ Listed) \in Nat /\ Cardinality(Listed \ Listed') \in Nat
        /\ Cardinality(Moved) \in Nat
    <3>1. Listed' \ Listed \in SUBSET Rows /\ Listed \ Listed' \in SUBSET Rows
      BY ListedRows
    <3> QED
      BY <3>1, ListedRows, RowsFinite
  <2> QED
    BY <2>1, <1>1, <1>3, <1>9, <1>10
<1>12. Cardinality((present' \ seen') \ Rest') <= parted'
  <2>1. /\ (present \ seen) \ Rest' \subseteq ((present \ seen) \ Rest) \cup (Rest \ Rest')
        /\ (present \ seen) \ Rest \in SUBSET Rows /\ Rest \ Rest' \in SUBSET Rows
        /\ Listed \ S \in SUBSET Rows
    BY <1>3, <1>5, ListedRows
  <2>2. Cardinality((present \ seen) \ Rest')
          <= Cardinality((present \ seen) \ Rest) + Cardinality(Rest \ Rest')
    BY <2>1, CountCover
  <2>3. /\ Cardinality((present \ seen) \ Rest) \in Nat
        /\ Cardinality(Rest \ Rest') \in Nat
        /\ Cardinality(Listed \ S) \in Nat
    BY <2>1, RowsFinite
  <2>4. (present \ seen) \ Rest' \in SUBSET Rows
    BY <1>3
  <2>5. Cardinality((present \ seen) \ Rest') \in Nat
    BY <2>4, RowsFinite
  <2> QED
    BY <2>2, <2>3, <2>5, <1>1, <1>2, <1>3, <1>6, <1>11
<1>13. Cardinality(seen' \cap Rest') + repeats' <= joined'
  <2>1. /\ seen \cap Rest' \subseteq (seen \cap Rest) \cup (Rest' \ Rest)
        /\ seen \cap Rest \in SUBSET Rows /\ Rest' \ Rest \in SUBSET Rows
        /\ Listed' \ S2 \in SUBSET Rows
    BY <1>3, <1>5, ListedRows
  <2>2. Cardinality(seen \cap Rest') <= Cardinality(seen \cap Rest) + Cardinality(Rest' \ Rest)
    BY <2>1, CountCover
  <2>3. /\ Cardinality(seen \cap Rest) \in Nat
        /\ Cardinality(Rest' \ Rest) \in Nat
        /\ Cardinality(Listed' \ S2) \in Nat
    BY <2>1, RowsFinite
  <2>4. seen \cap Rest' \in SUBSET Rows
    BY <1>3
  <2>5. Cardinality(seen \cap Rest') \in Nat
    BY <2>4, RowsFinite
  <2> QED
    BY <2>2, <2>3, <2>5, <1>1, <1>2, <1>3, <1>7, <1>11
<1> QED
  BY <1>1, <1>2, <1>12, <1>13

\* Nothing is missed or repeated before the first page.
LEMMA WalkInitInv == WalkInit => WalkInv
<1> SUFFICES ASSUME WalkInit PROVE WalkInv
  OBVIOUS
<1>1. ListingTypes
  BY InitTyped
<1>2. seen = {} /\ present = {} /\ parted = 0 /\ joined = 0 /\ repeats = 0 /\ ~done
  BY DEF WalkInit
<1>3. (present \ seen) \ Rest = {} /\ seen \cap Rest = {}
  BY <1>2
<1> QED
  BY <1>1, <1>2, <1>3, FS_EmptySet DEF WalkInv, MissedInv, RepeatInv, DoneInv

\* Every step keeps the bounds.
LEMMA WalkStepInv == WalkInv /\ [WalkNext]_listingVars => WalkInv'
<1> SUFFICES ASSUME WalkInv, [WalkNext]_listingVars PROVE WalkInv'
  OBVIOUS
<1>1. ListingTypes /\ ListingTypes'
  BY TypesStep DEF WalkInv
<1>2. CASE Fetch
  BY <1>1, <1>2, FetchKeeps DEF WalkInv
<1>3. CASE Walking /\ Changed
  BY <1>1, <1>3, ChangeKeeps DEF WalkInv
<1>4. CASE UNCHANGED listingVars
  <2>1. UNCHANGED <<listing, size, rows, day, page, done, seen, repeats, present, joined, parted, tied>>
    BY <1>4 DEF listingVars, tableVars, walkVars
  <2>2. Rest' = Rest
    BY <2>1 DEF Rest, KeyOf, Listed, Filter, Opened, Lapsed, Offset
  <2> QED
    BY <2>1, <2>2, <1>1 DEF WalkInv, MissedInv, RepeatInv, DoneInv
<1> QED
  BY <1>1, <1>2, <1>3, <1>4, StepKinds

\* For any table, page size, order and changes: a walk to the last page has
\* missed at most one of the rows it started with for each row that went out of
\* the listing or moved, unless the order had ties.
THEOREM MissesAreBounded == WalkSpec => []MissedBounded
<1>1. WalkInv => MissedBounded
  <2> SUFFICES ASSUME WalkInv, done, ~tied PROVE Cardinality(present \ seen) <= parted
    BY DEF MissedBounded
  <2>1. Rest = {}
    BY DEF WalkInv, DoneInv
  <2>2. (present \ seen) \ Rest = present \ seen
    BY <2>1
  <2> QED
    BY <2>2 DEF WalkInv, MissedInv
<1> QED
  BY <1>1, WalkInitInv, WalkStepInv, PTL DEF WalkSpec

\* For any of these, a row is shown again at most once for each row that came
\* into the listing or moved.
THEOREM RepeatsAreBounded == WalkSpec => []RepeatsBounded
<1>1. WalkInv => RepeatsBounded
  <2> SUFFICES ASSUME WalkInv, ~tied PROVE repeats <= joined
    BY DEF RepeatsBounded
  <2>1. seen \cap Rest \in SUBSET Rows /\ repeats \in Nat /\ joined \in Nat
    BY DEF WalkInv, ListingTypes
  <2>2. Cardinality(seen \cap Rest) \in Nat
    BY <2>1, RowsFinite
  <2> QED
    BY <2>1, <2>2 DEF WalkInv, RepeatInv
<1> QED
  BY <1>1, WalkInitInv, WalkStepInv, PTL DEF WalkSpec

=============================================================================
