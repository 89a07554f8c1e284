------------------------------- MODULE Records -------------------------------
(***************************************************************************)
(* Employers, assessments, opportunities, applications and bookmarks: how   *)
(* their rows are created, edited in part, refreshed by imports,           *)
(* recalculated and deleted (app/{employers,assessments,opportunities,     *)
(* applications,bookmarks}.go and the models of the same names).           *)
(*                                                                         *)
(* A PATCH is two statements: a SELECT, on whose result the given fields   *)
(* are laid, and an UPDATE of all editable columns.  Employers and         *)
(* assessments have a version against what comes in between; opportunities *)
(* and applications have none.                                             *)
(*                                                                         *)
(* A column here stands for all that the statements treat alike:           *)
(*   slug    unique in its table                                           *)
(*   key     unique under its parent: title and intake year; user          *)
(*   body    what a CSV row must give (name, industry; type, ...)          *)
(*   detail  what it may leave empty (size, website; deadline, ...)        *)
(*   list    what no CSV has: offices and social_links, which are read as  *)
(*           [] when NULL, and the culture of an employer                  *)
(*   flag    is_verified, is_active: no POST sets it                       *)
(*   rating  the aggregates of an employer                                 *)
(* A request gives all its columns the same value.  What is refused before *)
(* a row is touched (validation, a missing parent, a taken key on INSERT,  *)
(* another user's row) changes nothing and is left out.                    *)
(***************************************************************************)
EXTENDS Naturals

CONSTANTS Ids,          \* rows of all tables; an id is never used again
          KindOf,       \* KindOf[r]: the table of r
          Parent,       \* Parent[r]: the row that r's foreign key refers to
          Editors,      \* PATCH requests in progress at a time
          Values,       \* contents of a column
          Patches,      \* bound: the sets of columns that a PATCH may give
          Nothing,      \* NULL, or a column's default
          EmptyList,    \* []
          MaxWrites     \* bound: statements that write a row

Kinds   == {"employer", "assessment", "opportunity", "application", "bookmark"}
Columns == {"slug", "key", "body", "detail", "list", "flag", "rating"}

ASSUME RecordsAssumption ==
    /\ KindOf \in [Ids -> Kinds]
    /\ Parent \in [Ids -> Ids \union {Nothing}]
    /\ Nothing \notin Ids \union Values \union {EmptyList}
    /\ MaxWrites \in Nat

VARIABLES
    row,    \* row[r]: the row with id r
    edit,   \* edit[e]: what the PATCH request e is about and has read
    want,   \* history: want[r][c]: the value that was last given for column c
    taken,  \* history: columns that an import which had no value for them has
            \* set to NULL, and nobody has given since
    writes  \* history: statements that have written a row

vars == <<row, edit, want, taken, writes>>

Versioned == {r \in Ids : KindOf[r] \in {"employer", "assessment"}}

\* The columns that the input struct of a PATCH has and its UPDATE writes.
EditableEmployer    == {"slug", "body", "detail", "list", "flag"}
EditableAssessment  == {"body", "detail"}
EditableOpportunity == {"slug", "key", "body", "detail", "flag"}
EditableApplication == {"body", "detail"}

Editable(k) == CASE k = "employer"    -> EditableEmployer
                 [] k = "assessment"  -> EditableAssessment
                 [] k = "opportunity" -> EditableOpportunity
                 [] k = "application" -> EditableApplication
                 [] k = "bookmark"    -> {}

\* What a row of a CSV file may give a value for; is_active is true if it does
\* not say.
Supplied(k) == CASE k = "employer"    -> {{"body"}, {"body", "detail"}}
                 [] k = "opportunity" -> {{"slug", "body", "flag"},
                                          {"slug", "body", "flag", "detail"}}
                 [] OTHER             -> {}

\* The columns ON CONFLICT DO UPDATE sets, and the key it compares.
Overwritten(k) == IF k = "employer" THEN {"body", "detail", "list"}
                                    ELSE {"slug", "body", "detail", "flag"}
MergeKey(k)    == IF k = "employer" THEN {"slug"} ELSE {"key"}

\* The columns the INSERT of a handler sets.
CreatedEmployer    == {"slug", "body", "detail", "list"}
CreatedAssessment  == {"body", "detail"}
CreatedOpportunity == {"slug", "key", "body", "detail"}
CreatedApplication == {"key", "body", "detail"}
CreatedBookmark    == {"key"}

Created(k) == CASE k = "employer"    -> CreatedEmployer
                [] k = "assessment"  -> CreatedAssessment
                [] k = "opportunity" -> CreatedOpportunity
                [] k = "application" -> CreatedApplication
                [] k = "bookmark"    -> CreatedBookmark

Contents == [Columns -> Values \union {Nothing, EmptyList}]
Empty    == [c \in Columns |-> Nothing]
Rows     == [life : {"fresh", "live", "gone"}, version : Nat \ {0}, val : Contents]
Fresh    == [life |-> "fresh", version |-> 1, val |-> Empty]
Gone     == [life |-> "gone", version |-> 1, val |-> Empty]

Phases   == {"idle", "write", "conflict"}
Edits    == [pc : Phases, id : Ids \union {Nothing}, given : SUBSET Columns,
             draft : Contents, version : Nat, touched : BOOLEAN]
NoEdit   == [pc |-> "idle", id |-> Nothing, given |-> {}, draft |-> Empty,
             version |-> 0, touched |-> FALSE]

Live(r) == row[r].life = "live"

\* UNIQUE (slug); UNIQUE (employer_id, title, intake_year), UNIQUE (user_id,
\* opportunity_id).
Clash(r, val) ==
    \E x \in Ids \ {r} :
       /\ Live(x) /\ KindOf[x] = KindOf[r]
       /\ \/ /\ KindOf[r] \in {"employer", "opportunity"}
             /\ row[x].val["slug"] = val["slug"]
          \/ /\ KindOf[r] \in {"opportunity", "application", "bookmark"}
             /\ row[x].val["key"] = val["key"] /\ Parent[x] = Parent[r]

\* Overlay the columns in s with the value v.
Laid(f, s, v) == [c \in Columns |-> IF c \in s THEN v ELSE f[c]]

\* What is last given to the columns in s of a row with a version.
Meant(r, s, v) == IF r \in Versioned THEN [want EXCEPT ![r] = Laid(want[r], s, v)]
                                     ELSE want
TakenBy(r, s)  == IF r \in Versioned THEN [taken EXCEPT ![r] = s] ELSE taken

\* The edits that have read one of the rows in R are out of date.
Overtaken(R) ==
    [e \in Editors |-> IF edit[e].pc = "write" /\ edit[e].id \in R
                       THEN [edit[e] EXCEPT !.touched = TRUE] ELSE edit[e]]

Init == /\ row = [r \in Ids |-> Fresh]
        /\ edit = [e \in Editors |-> NoEdit]
        /\ want = [r \in Ids |-> Empty]
        /\ taken = [r \in Ids |-> {}]
        /\ writes = 0

\* One more statement writes rows.
Counts == writes < MaxWrites /\ writes' = writes + 1

-----------------------------------------------------------------------------
(* Statements that stand alone                                             *)

\* version INTEGER NOT NULL DEFAULT 1
FirstVersion == 1

\* INSERT, by a handler or, under a key that is not there, by an import.
Create(r) ==
    /\ Counts
    /\ row[r].life = "fresh"
    /\ Parent[r] # Nothing => Live(Parent[r])
    /\ \E v \in Values :
       \E s \in {Created(KindOf[r])}
                 \union {MergeKey(KindOf[r]) \union has : has \in Supplied(KindOf[r])} :
          LET new == Laid(Empty, s, v) IN
          /\ ~Clash(r, new)
          /\ row' = [row EXCEPT ![r] =
                        [life |-> "live", version |-> FirstVersion, val |-> new]]
          /\ want' = Meant(r, s, v)
    /\ UNCHANGED <<edit, taken>>

\* Mutant: an import leaves the version as it is.
VersionKept(r) == row[r].version

\* Upsert of a key that is there; opportunities have no version.
VersionAfterImport(r) ==
    IF r \in Versioned THEN row[r].version + 1 ELSE row[r].version

\* A column that the file gives no value for is NULL in EXCLUDED.
Refreshed(r, has, v) ==
    [c \in Columns |-> IF c \in has THEN v
                       ELSE IF c \in Overwritten(KindOf[r]) THEN Nothing
                       ELSE row[r].val[c]]

Import(r) ==
    /\ Counts
    /\ Live(r)
    /\ \E v \in Values, has \in Supplied(KindOf[r]) :
          LET new == Refreshed(r, has, v) IN
          /\ ~Clash(r, new)
          /\ row' = [row EXCEPT ![r].version = VersionAfterImport(r), ![r].val = new]
          /\ want' = Meant(r, has, v)
          /\ taken' = TakenBy(r, (taken[r] \union Overwritten(KindOf[r])) \ has)
    /\ edit' = Overtaken({r})

\* Mutant: recalculations count as edits.
VersionRaised(r) == row[r].version + 1

\* RecalculateRatings sets the aggregate columns alone.
VersionAfterRecalculation(r) == row[r].version

Recalculate(r) ==
    /\ Counts
    /\ KindOf[r] = "employer"
    /\ Live(r)
    /\ \E v \in Values :
          /\ row' = [row EXCEPT ![r].version = VersionAfterRecalculation(r),
                                ![r].val = Laid(row[r].val, {"rating"}, v)]
          /\ want' = Meant(r, {"rating"}, v)
    /\ UNCHANGED <<edit, taken>>

Children(r) == {x \in Ids : Live(x) /\ Parent[x] = r}

\* ON DELETE RESTRICT protects employers (reviews are outside this module: an
\* employer with reviews has no such step); applications and bookmarks go with
\* their opportunity.  No handler deletes an assessment.
Delete(r) ==
    /\ Counts
    /\ Live(r)
    /\ KindOf[r] # "assessment"
    /\ KindOf[r] = "employer" => Children(r) = {}
    /\ LET out == {r} \union Children(r) IN
       /\ row' = [x \in Ids |-> IF x \in out THEN Gone ELSE row[x]]
       /\ want' = [x \in Ids |-> IF x \in out THEN Empty ELSE want[x]]
       /\ taken' = [x \in Ids |-> IF x \in out THEN {} ELSE taken[x]]
       /\ edit' = Overtaken(out)

-----------------------------------------------------------------------------
(* Partial updates                                                         *)

\* Of answers, the conflict alone is told from the others.
Answer(e) == edit' = [edit EXCEPT ![e] = NoEdit]

\* Mutant: a field that is not given is taken as absent.
MergedAbsent(r, s, v) == Laid(Empty, s, v)

\* normalizeJSONArray: no reader is shown a list that is NULL.
Shown(c, x) == IF c = "list" /\ x = Nothing THEN EmptyList ELSE x

\* The row as it was read, with the given fields laid over it; the ratings are
\* not written back.
Merged(r, s, v) ==
    [c \in Columns |-> IF c \in s THEN v
                       ELSE IF c \in Editable(KindOf[r]) THEN Shown(c, row[r].val[c])
                       ELSE Nothing]

\* A PATCH for a row the client knows: GetByID, then "if input.X != nil
\* { current.X = *input.X }".  Only applications want at least one field.
\* Bound: nothing is read that no write can follow.
Fetch(e) ==
    /\ writes < MaxWrites
    /\ edit[e].pc \in {"idle", "conflict"}
    /\ \E r \in Ids, v \in Values, p \in Patches :
          LET s == p \intersect Editable(KindOf[r]) IN
          /\ row[r].life # "fresh"
          /\ KindOf[r] # "bookmark"
          /\ KindOf[r] = "application" => s # {}
          /\ IF Live(r)
             THEN edit' = [edit EXCEPT ![e] =
                             [NoEdit EXCEPT !.pc = "write", !.id = r, !.given = s,
                                 !.draft = Merged(r, s, v), !.version = row[r].version]]
             ELSE Answer(e)
    /\ UNCHANGED <<row, want, taken, writes>>

\* WHERE id = $1, and AND version = $2 where there is one.
Matches(e) ==
    LET r == edit[e].id IN
    Live(r) /\ (r \in Versioned => row[r].version = edit[e].version)

\* No row: 409 where there is a version, else 404 or, for an application whose
\* UPDATE returns nothing to scan, 500.
Miss(e) ==
    /\ edit[e].pc = "write"
    /\ ~Matches(e)
    /\ IF edit[e].id \in Versioned
       THEN edit' = [edit EXCEPT ![e] = [NoEdit EXCEPT !.pc = "conflict",
                                             !.touched = edit[e].touched]]
       ELSE Answer(e)
    /\ UNCHANGED <<row, want, taken, writes>>

\* All editable columns are written.
Written(r, draft) ==
    [c \in Columns |-> IF c \in Editable(KindOf[r]) THEN draft[c] ELSE row[r].val[c]]

\* Another row has the slug or the key that is to be written.
Taken(e) == LET r == edit[e].id IN Clash(r, Written(r, edit[e].draft))

\* SQLSTATE 23505.
Duplicate(e) ==
    /\ edit[e].pc = "write"
    /\ Matches(e) /\ Taken(e)
    /\ Answer(e)
    /\ UNCHANGED <<row, want, taken, writes>>

VersionAfterEdit(r) ==
    IF r \in Versioned THEN row[r].version + 1 ELSE row[r].version

\* Assessments and opportunities are read once more for the answer, which is
\* 404, although the edit is there, if they have been deleted since.
Write(e) ==
    LET r == edit[e].id IN
    /\ edit[e].pc = "write"
    /\ Counts
    /\ Matches(e) /\ ~Taken(e)
    /\ row' = [row EXCEPT ![r].version = VersionAfterEdit(r),
                          ![r].val = Written(r, edit[e].draft)]
    /\ want' = IF r \in Versioned
               THEN [want EXCEPT ![r] = [c \in Columns |->
                       IF c \in edit[e].given THEN edit[e].draft[c] ELSE want[r][c]]]
               ELSE want
    /\ taken' = TakenBy(r, taken[r] \ edit[e].given)
    /\ edit' = [Overtaken({r}) EXCEPT ![e] = NoEdit]

-----------------------------------------------------------------------------
Statement(r) == Create(r) \/ Import(r) \/ Recalculate(r) \/ Delete(r)
Request(e)   == Fetch(e) \/ Miss(e) \/ Duplicate(e) \/ Write(e)

Next == (\E r \in Ids : Statement(r)) \/ (\E e \in Editors : Request(e))

Spec == Init /\ [][Next]_vars

-----------------------------------------------------------------------------
(* Properties                                                              *)

\* Types of the rows, the requests and what was meant.
TypeOK == /\ row \in [Ids -> Rows]
          /\ edit \in [Editors -> Edits]
          /\ want \in [Ids -> Contents]
          /\ taken \in [Ids -> SUBSET Columns]
          /\ writes \in 0..MaxWrites

\* Every column of an employer or assessment shows the value that was last given
\* for it, by an administrator, a CSV row or a recalculation: nobody's write is
\* undone by a request that did not give the field (the 409 of a PATCH).  The
\* exception are the columns an import takes: EmployerModel.Upsert sets what the
\* file has no value for, the offices, culture and social_links of an employer
\* always, to NULL (data/employers.go:489-499): these show nothing until they are
\* given again, and an edit that had read the older value does not bring it back.
NothingReverted ==
    \A r \in Versioned : Live(r) => \A c \in Columns :
        Shown(c, row[r].val[c]) = Shown(c, IF c \in taken[r] THEN Nothing ELSE want[r][c])

\* A 409 "edit conflict, please retry" has a cause: another edit, an import or
\* the deletion of the row since it was read.  Recalculations of the ratings,
\* which nobody edits, are none.
ConflictIsReal ==
    \A e \in Editors : edit[e].pc = "conflict" => edit[e].touched

\* On any row, a request changes what is shown of a column it did not give only
\* if there is no version and another write came in between its two statements.
Reverts(e) ==
    /\ edit[e].pc = "write"
    /\ edit'[e].pc = "idle"
    /\ \E c \in Columns \ edit[e].given :
          Shown(c, row'[edit[e].id].val[c]) # Shown(c, row[edit[e].id].val[c])

RevertNeedsOverlap ==
    [][\A e \in Editors :
          Reverts(e) => edit[e].touched /\ edit[e].id \notin Versioned]_vars
=============================================================================
