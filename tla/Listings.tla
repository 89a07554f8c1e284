------------------------------- MODULE Listings -------------------------------
(***************************************************************************)
(* The paged listings: a visitor fetches page after page of one endpoint   *)
(* while rows are created, edited, withdrawn, imported and removed and     *)
(* midnight passes.  Every page is one SELECT ... ORDER BY ... LIMIT ...   *)
(* OFFSET ..., and nothing ties one page to the next.                      *)
(*                                                                         *)
(* Of a row only what a listing looks at is modelled: whether the fixed    *)
(* part of WHERE holds, where the row stands in the order, and, for        *)
(* opportunities, the dates and the flag the status is computed from.      *)
(* The directions ASC and DESC differ by the meaning of a key only.        *)
(***************************************************************************)
EXTENDS Naturals, FiniteSets

CONSTANTS NumRows,    \* bound: rows of the table, by primary key 1..NumRows
          NumKeys,    \* bound: values of the sort column
          Sizes,      \* values of page_size that visitors use
          LastDay,    \* bound: days 1..LastDay
          Periods,    \* bound: dates <<opens_at, deadline>> of new rows
          MaxChanges  \* bound: changes during one walk

ASSUME ListingsAssumption ==
    /\ NumRows \in Nat \ {0} /\ NumKeys \in Nat \ {0}
    /\ Sizes \subseteq 1..100
    /\ LastDay \in Nat \ {0}
    /\ MaxChanges \in Nat

VARIABLES
    listing,     \* the endpoint, its status filter and whether its order moves
    size,        \* page_size
    rows,        \* rows[r]: row r, or Absent
    day,         \* CURRENT_DATE
    page,        \* the last page the visitor fetched, 0 before the first
    done,        \* it was the last one, by its metadata
    seen,        \* history: rows the visitor has been shown
    repeats,     \* history: how many of them again
    present,     \* history: rows listed when the walk began
    joined,      \* history: rows that came into the listing during the walk
    parted,      \* history: rows that went out of it
    tied,        \* history: a page was read in an order with ties
    changes      \* history: changes so far

tableVars == <<rows, day>>
walkVars  == <<page, done, seen, repeats, present, tied>>
listingVars == <<listing, size, tableVars, walkVars, joined, parted, changes>>

Rows == 1..NumRows
Keys == 1..NumKeys
Days == 1..LastDay
NoDate == 0    \* NULL, and the zero time
Dates  == Days \union {NoDate}

\* opens_at is before or on the deadline, as far as both are given.
InOrder(opens, deadline) ==
    opens # NoDate /\ deadline # NoDate => opens <= deadline

ASSUME PeriodsAssumption == Periods \subseteq Dates \X Dates

Absent == [live |-> FALSE, key |-> 1, fits |-> FALSE, active |-> FALSE,
           opens |-> NoDate, deadline |-> NoDate, vetted |-> TRUE]

-----------------------------------------------------------------------------
(* The endpoints: refits, an UPDATE changes what WHERE tests; unique, the  *)
(* ORDER BY ends in the primary key; imported, CSV files write the table;  *)
(* dated, WHERE looks at dates.                                            *)

Query(refits, unique, imported, dated) ==
    [refits |-> refits, unique |-> unique, imported |-> imported, dated |-> dated]

\* ORDER BY <column>, name: two employers may have one name.
EmployerQuery == Query(TRUE, FALSE, TRUE, FALSE)
EmployerSorts == {"name", "created_at"}

\* The search looks at programme_type and at the employer's name.
AssessmentQuery == Query(TRUE, TRUE, FALSE, FALSE)
AssessmentSorts == {"programme_type", "created_at", "updated_at"}

EmployerAssessmentQuery == Query(FALSE, TRUE, FALSE, FALSE)
EmployerAssessmentSorts == {"programme_type", "updated_at"}

OpportunityQuery == Query(TRUE, TRUE, TRUE, TRUE)
OpportunitySorts == {"deadline", "opens_at", "created_at", "title"}
PublicStatuses   == {"open", "upcoming", "open_or_upcoming"}
AdminStatuses    == {"all", "open", "upcoming", "closed", "withdrawn"}

BookmarkQuery == Query(FALSE, TRUE, FALSE, FALSE)
BookmarkSorts == {"created_at", "deadline"}

\* apptk.status = $2.
ApplicationQuery == Query(TRUE, TRUE, FALSE, FALSE)
ApplicationSorts == {"updated_at", "created_at"}

\* r.status = 'approved'.
ReviewQuery == Query(TRUE, TRUE, FALSE, FALSE)
ReviewSorts == {"difficulty_rating", "experience_rating", "created_at"}

\* status = $1.  A page with a review whose author is gone fails as a whole, which
\* Reviews has as Listable.
ModerationQuery == Query(TRUE, TRUE, FALSE, FALSE)
ModerationSorts == {"created_at"}

\* Every column one can sort by is set by some UPDATE, but for created_at.
Moves(column) == column # "created_at"

Endpoint(query, sorts, statuses) ==
    {[query |-> query, moves |-> Moves(c), status |-> s] : c \in sorts, s \in statuses}

\* Endpoints with the same traits are one: sortColumn and the SELECT tell no
\* more of them apart.
Endpoints ==
    UNION {Endpoint(EmployerQuery, EmployerSorts, {"all"}),
           Endpoint(AssessmentQuery, AssessmentSorts, {"all"}),
           Endpoint(EmployerAssessmentQuery, EmployerAssessmentSorts, {"all"}),
           Endpoint(OpportunityQuery, OpportunitySorts, PublicStatuses),
           Endpoint(OpportunityQuery, OpportunitySorts, AdminStatuses),
           Endpoint(BookmarkQuery, BookmarkSorts, {"all"}),
           Endpoint(ApplicationQuery, ApplicationSorts, {"all"}),
           Endpoint(ReviewQuery, ReviewSorts, {"all"}),
           Endpoint(ModerationQuery, ModerationSorts, {"all"})}

-----------------------------------------------------------------------------
(* The computed status of an opportunity                                   *)

Opened(row) == row.opens = NoDate \/ day >= row.opens
Lapsed(row) == row.deadline # NoDate /\ day > row.deadline

\* The CASE of selectOpportunityColumns: the status a response shows.
ShownStatus(row) == CASE ~row.active               -> "withdrawn"
                [] row.active /\ ~Opened(row) -> "upcoming"
                [] row.active /\ Opened(row) /\ Lapsed(row) -> "closed"
                [] OTHER                      -> "open"

\* The WHERE of OpportunityModel.GetAll: the rows a status filter lists.
Filter(status, row) ==
    \/ status = "all"
    \/ status = "withdrawn" /\ ~row.active
    \/ status = "upcoming" /\ row.active /\ ~Opened(row)
    \/ status = "closed" /\ row.active /\ Lapsed(row)
    \/ status = "open" /\ row.active /\ Opened(row) /\ ~Lapsed(row)
    \/ status = "open_or_upcoming" /\ row.active /\ ~Lapsed(row)

\* AnalyticsModel.GetCounts: the rows that opportunities_open counts.
CountedOpen(row) == row.active /\ Opened(row) /\ ~Lapsed(row)

Listed == {r \in Rows : /\ rows[r].live
                        /\ rows[r].fits
                        /\ Filter(listing.status, rows[r])}

-----------------------------------------------------------------------------
(* Pages                                                                   *)

\* Mutants: the offset counts pages, and the offset of the page after it.
OffsetInPages == page
OffsetOfNext  == (page + 1) * size

\* Filters.offset of the next page.
Offset == page * size

\* Metadata.LastPage; without a row on the page there is no count, and every
\* field of Metadata is 0.
LastPage(total) == (total + size - 1) \div size

Ties == \E a, b \in Listed : a # b /\ rows[a].key = rows[b].key

\* What breaks a tie: the primary key, or nothing that a query can rely on.
Breakers == IF listing.query.unique THEN {[r \in Rows |-> r]}
            ELSE {f \in [Rows -> Rows] : \A a, b \in Rows : a # b => f[a] # f[b]}

Before(breaker, a, b) ==
    \/ rows[a].key < rows[b].key
    \/ rows[a].key = rows[b].key /\ breaker[a] < breaker[b]

\* The rows of the next page.
PageRows(breaker) ==
    {r \in Listed : Cardinality({a \in Listed : Before(breaker, a, r)})
                        \in Offset..(Offset + size - 1)}

Fetch ==
    /\ ~done
    /\ \E breaker \in Breakers :
          LET shown == PageRows(breaker) IN
          /\ seen' = seen \union shown
          /\ repeats' = repeats + Cardinality(shown \intersect seen)
          /\ done' = (page + 1 >= IF shown = {} THEN 0 ELSE LastPage(Cardinality(Listed)))
    /\ page' = page + 1
    /\ present' = IF page = 0 THEN Listed ELSE present
    /\ tied' = (tied \/ (Ties /\ ~listing.query.unique))
    /\ UNCHANGED <<listing, size, tableVars, joined, parted, changes>>

-----------------------------------------------------------------------------
(* Changes during the walk.  Those before it are in the initial state.     *)

\* A row that moves goes out of the listing and comes in elsewhere.
Moved == {r \in Listed \intersect Listed' : rows'[r].key # rows[r].key}

\* The visitor has a page and will fetch another.
Walking == page > 0 /\ ~done /\ changes < MaxChanges

Changed ==
    /\ UNCHANGED <<listing, size, walkVars>>
    /\ changes' = changes + 1
    /\ joined' = joined + Cardinality(Listed' \ Listed) + Cardinality(Moved)
    /\ parted' = parted + Cardinality(Listed \ Listed') + Cardinality(Moved)

Write(r, row) == rows' = [rows EXCEPT ![r] = row] /\ UNCHANGED day

\* The dates a new row may have, and whether WHERE may leave it out.  Of the
\* opportunity listings the status filter stands for the other filters.
Given == IF listing.query.dated THEN Periods ELSE {<<NoDate, NoDate>>}
Fits  == IF listing.query.dated THEN {TRUE} ELSE BOOLEAN

\* The rows that an accepted POST or a file creates.
New(vetted) ==
    {[live |-> TRUE, key |-> k, fits |-> f, active |-> TRUE,
      opens |-> d[1], deadline |-> d[2], vetted |-> vetted] :
        k \in Keys, f \in Fits,
        d \in {p \in Given : vetted => InOrder(p[1], p[2])}}

\* Where an UPDATE may put a row in the order.
NewKeys(r) == IF listing.moves THEN Keys ELSE {rows[r].key}

\* POST: ValidateCreateOpportunityInput compares the dates if both are given.
Create(r) ==
    /\ ~rows[r].live
    /\ \E row \in New(TRUE) : Write(r, row)
    /\ Changed

\* Upsert: no validation, is_active from the file or TRUE.  An update can move
\* the row, but created_at is not among its columns.
Import(r) ==
    /\ listing.query.imported
    /\ \E row \in New(FALSE), active \in BOOLEAN :
          /\ rows[r].live => row.key \in NewKeys(r)
          /\ ~listing.query.dated => active
          /\ Write(r, [row EXCEPT !.active = active])
    /\ Changed

\* PATCH of columns that the search tests or the listing is sorted by.
Edit(r) ==
    /\ rows[r].live
    /\ \E key \in NewKeys(r),
          fits \in IF listing.query.refits THEN Fits ELSE {rows[r].fits} :
          Write(r, [rows[r] EXCEPT !.key = key, !.fits = fits])
    /\ Changed

\* Mutant: the dates of a PATCH are not compared.
ComparedNever(opens, deadline) == TRUE

\* PATCH of dates: ValidateUpdateOpportunityInput compares them when both are given;
\* one that is not given stays.  "" is a given date, is before every other in
\* that comparison, and is stored as NULL.
Compared(opens, deadline) == opens <= deadline

PatchDates(r) ==
    /\ listing.query.dated
    /\ rows[r].live
    /\ \E key \in NewKeys(r) :
          LET row == [rows[r] EXCEPT !.key = key] IN
          \/ \E opens, deadline \in Dates :
                /\ Compared(opens, deadline)
                /\ Write(r, [row EXCEPT !.opens = opens, !.deadline = deadline,
                                        !.vetted = TRUE])
          \/ \E opens \in Dates : Write(r, [row EXCEPT !.opens = opens, !.vetted = FALSE])
          \/ \E deadline \in Dates :
                Write(r, [row EXCEPT !.deadline = deadline, !.vetted = FALSE])
    /\ Changed

\* PATCH of is_active.
SetActive(r) ==
    /\ listing.query.dated
    /\ rows[r].live
    /\ Write(r, [rows[r] EXCEPT !.active = ~@])
    /\ Changed

Remove(r) ==
    /\ rows[r].live
    /\ Write(r, Absent)
    /\ Changed

Midnight ==
    /\ listing.query.dated
    /\ day < LastDay
    /\ day' = day + 1
    /\ UNCHANGED rows
    /\ Changed

WalkInit ==
    /\ listing \in Endpoints
    /\ size \in Sizes
    /\ rows \in [Rows -> {Absent} \union New(TRUE)]
    /\ day \in IF listing.query.dated THEN Days ELSE {1}
    /\ page = 0 /\ done = FALSE
    /\ seen = {} /\ repeats = 0
    /\ present = {} /\ tied = FALSE
    /\ joined = 0 /\ parted = 0
    /\ changes = 0

WalkNext ==
    \/ Fetch
    \/ /\ Walking
       /\ \/ \E r \in Rows : \/ Create(r) \/ Import(r) \/ Edit(r)
                             \/ PatchDates(r) \/ SetActive(r) \/ Remove(r)
          \/ Midnight

WalkSpec == WalkInit /\ [][WalkNext]_listingVars

-----------------------------------------------------------------------------
(* Properties                                                              *)

\* A visitor who follows the metadata to the last page has missed at most one
\* row of those listed at the start for each row that went out of the listing
\* or moved meanwhile, and none when rows were only added: offset, limit, page
\* count and the tie-break of the order fit together.  An order with ties
\* gives no such promise.
MissedBounded == done /\ ~tied => Cardinality(present \ seen) <= parted

\* A row is shown again at most once for each row that came into the listing
\* or moved during the walk.
RepeatsBounded == ~tied => repeats <= joined

\* The status a response shows, the status filter of the listings and the
\* count of open opportunities on the dashboard are three expressions of one
\* rule; they agree on every row whose dates were compared when they were
\* written (opportunities.go:132 and 185).
StatusesAgree ==
    \A r \in Rows :
        LET row == rows[r] IN
        row.live /\ row.vetted =>
            /\ \A s \in {"open", "upcoming", "closed", "withdrawn"} :
                  Filter(s, row) <=> ShownStatus(row) = s
            /\ Filter("open_or_upcoming", row) <=> ShownStatus(row) \in {"open", "upcoming"}
            /\ CountedOpen(row) <=> ShownStatus(row) = "open"
=============================================================================
