---------------------------- MODULE RecordsProofs ----------------------------
(* Theorems about partial updates, for any number of rows, requests and      *)
(* values, and however many statements write.                                *)
EXTENDS Records, TLAPS

-----------------------------------------------------------------------------
(* Columns                                                                   *)

LEMMA EditableColumns ==
    ASSUME NEW k \in Kinds PROVE Editable(k) \subseteq Columns \ {"rating"}
BY DEF Kinds, Editable, Columns, EditableEmployer, EditableAssessment,
       EditableOpportunity, EditableApplication

LEMMA EmptyContents == Empty \in Contents
BY DEF Empty, Contents

LEMMA LaidContents ==
    ASSUME NEW f \in Contents, NEW s, NEW v \in Values
    PROVE  Laid(f, s, v) \in Contents
BY DEF Laid, Contents

LEMMA LaidElsewhere ==
    ASSUME NEW f, NEW s, NEW v, NEW c \in Columns, c \notin s
    PROVE  Laid(f, s, v)[c] = f[c]
BY DEF Laid

LEMMA SuppliedColumns ==
    ASSUME NEW k \in Kinds, NEW has \in Supplied(k) PROVE has \subseteq Columns
BY DEF Kinds, Supplied, Columns

LEMMA ShownTwice ==
    ASSUME NEW c, NEW x PROVE Shown(c, Shown(c, x)) = Shown(c, x)
BY DEF Shown

LEMMA ShownContents ==
    ASSUME NEW f \in Contents, NEW c \in Columns
    PROVE  Shown(c, f[c]) \in Values \union {Nothing, EmptyList}
BY DEF Shown, Contents

LEMMA KindsOfRows == ASSUME NEW r \in Ids PROVE KindOf[r] \in Kinds
BY RecordsAssumption

LEMMA NoEditTyped == NoEdit \in Edits
BY EmptyContents DEF NoEdit, Edits, Phases

-----------------------------------------------------------------------------
(* Types                                                                     *)

LEMMA InitTypes == Init => TypeOK
<1> SUFFICES ASSUME Init PROVE TypeOK
  OBVIOUS
<1>1. row \in [Ids -> Rows]
  BY EmptyContents DEF Init, Fresh, Rows
<1>2. edit \in [Editors -> Edits]
  BY NoEditTyped DEF Init
<1>3. want \in [Ids -> Contents]
  BY EmptyContents DEF Init
<1>4. writes \in 0..MaxWrites /\ taken \in [Ids -> SUBSET Columns]
  BY RecordsAssumption DEF Init
<1> QED
  BY <1>1, <1>2, <1>3, <1>4 DEF TypeOK

LEMMA CountTyped == TypeOK /\ Counts => writes' \in 0..MaxWrites
BY RecordsAssumption DEF TypeOK, Counts

LEMMA OvertakenTyped ==
    ASSUME TypeOK, NEW R PROVE Overtaken(R) \in [Editors -> Edits]
<1> SUFFICES ASSUME NEW e \in Editors
             PROVE  [edit[e] EXCEPT !.touched = TRUE] \in Edits /\ edit[e] \in Edits
  BY DEF Overtaken
<1> QED
  BY DEF TypeOK, Edits

LEMMA AnswerTyped ==
    ASSUME TypeOK, NEW e \in Editors, Answer(e) PROVE edit' \in [Editors -> Edits]
BY NoEditTyped DEF Answer, TypeOK

LEMMA MeantTyped ==
    ASSUME TypeOK, NEW r \in Ids, NEW s, NEW v \in Values
    PROVE  Meant(r, s, v) \in [Ids -> Contents]
<1>1. Laid(want[r], s, v) \in Contents
  BY LaidContents DEF TypeOK
<1> QED
  BY <1>1 DEF Meant, TypeOK

LEMMA TakenByTyped ==
    ASSUME TypeOK, NEW r \in Ids, NEW s \in SUBSET Columns
    PROVE  TakenBy(r, s) \in [Ids -> SUBSET Columns]
BY DEF TakenBy, TypeOK

LEMMA RefreshedContents ==
    ASSUME TypeOK, NEW r \in Ids, NEW has, NEW v \in Values
    PROVE  Refreshed(r, has, v) \in Contents
BY DEF Refreshed, Contents, TypeOK, Rows

\* What a statement of its own leaves behind.
LEMMA StatementTypes ==
    ASSUME TypeOK, NEW r \in Ids, Statement(r) PROVE TypeOK'
<1>1. CASE Create(r)
  <2>1. PICK v \in Values, s \in {Created(KindOf[r])}
                    \union {MergeKey(KindOf[r]) \union has : has \in Supplied(KindOf[r])} :
          /\ row' = [row EXCEPT ![r] = [life |-> "live", version |-> FirstVersion,
                                        val |-> Laid(Empty, s, v)]]
          /\ want' = Meant(r, s, v)
    BY <1>1 DEF Create
  <2>2. Laid(Empty, s, v) \in Contents
    BY EmptyContents, LaidContents
  <2> HIDE DEF Laid
  <2>3. row' \in [Ids -> Rows]
    BY <2>1, <2>2 DEF TypeOK, Rows, FirstVersion
  <2>4. want' \in [Ids -> Contents]
    BY <2>1, MeantTyped
  <2> QED
    BY <1>1, <2>3, <2>4, CountTyped DEF TypeOK, Create
<1>2. CASE Import(r)
  <2>1. PICK v \in Values, has \in Supplied(KindOf[r]) :
          /\ row' = [row EXCEPT ![r].version = VersionAfterImport(r),
                                ![r].val = Refreshed(r, has, v)]
          /\ want' = Meant(r, has, v)
          /\ taken' = TakenBy(r, (taken[r] \union Overwritten(KindOf[r])) \ has)
    BY <1>2 DEF Import
  <2>2. Refreshed(r, has, v) \in Contents
    BY RefreshedContents
  <2>3. VersionAfterImport(r) \in Nat \ {0}
    BY DEF TypeOK, Rows, VersionAfterImport
  <2>4. row' \in [Ids -> Rows]
    BY <2>1, <2>2, <2>3 DEF TypeOK, Rows
  <2>5. want' \in [Ids -> Contents]
    BY <2>1, MeantTyped
  <2>6. Overwritten(KindOf[r]) \subseteq Columns
    BY DEF Overwritten, Columns
  <2>7. taken' \in [Ids -> SUBSET Columns]
    BY <2>1, <2>6, TakenByTyped DEF TypeOK
  <2>8. edit' \in [Editors -> Edits] /\ writes' \in 0..MaxWrites
    BY <1>2, CountTyped, OvertakenTyped DEF Import
  <2> QED
    BY <2>4, <2>5, <2>7, <2>8 DEF TypeOK
<1>3. CASE Recalculate(r)
  <2>1. PICK v \in Values :
          /\ row' = [row EXCEPT ![r].version = VersionAfterRecalculation(r),
                                ![r].val = Laid(row[r].val, {"rating"}, v)]
          /\ want' = Meant(r, {"rating"}, v)
    BY <1>3 DEF Recalculate
  <2>2. Laid(row[r].val, {"rating"}, v) \in Contents
    BY LaidContents DEF TypeOK, Rows
  <2>3. row' \in [Ids -> Rows]
    BY <2>1, <2>2 DEF TypeOK, Rows, VersionAfterRecalculation
  <2>4. want' \in [Ids -> Contents]
    BY <2>1, MeantTyped
  <2> QED
    BY <1>3, <2>3, <2>4, CountTyped DEF TypeOK, Recalculate
<1>4. CASE Delete(r)
  <2>1. row' \in [Ids -> Rows] /\ want' \in [Ids -> Contents]
    BY <1>4, EmptyContents DEF Delete, TypeOK, Gone, Rows
  <2>2. taken' \in [Ids -> SUBSET Columns]
    BY <1>4 DEF Delete, TypeOK
  <2> QED
    BY <1>4, <2>1, <2>2, CountTyped, OvertakenTyped DEF TypeOK, Delete
<1> QED
  BY <1>1, <1>2, <1>3, <1>4 DEF Statement

LEMMA MergedContents ==
    ASSUME TypeOK, NEW r \in Ids, NEW s, NEW v \in Values
    PROVE  Merged(r, s, v) \in Contents
<1>1. row[r].val \in Contents
  BY DEF TypeOK, Rows
<1>2. \A c \in Columns : Shown(c, row[r].val[c]) \in Values \union {Nothing, EmptyList}
  BY <1>1, ShownContents
<1> QED
  BY <1>2 DEF Merged, Contents

LEMMA RequestTypes ==
    ASSUME TypeOK, NEW e \in Editors, Request(e),
           edit[e].pc = "write" => edit[e].id \in Ids
    PROVE  TypeOK'
<1>1. CASE Fetch(e)
  <2>1. PICK r \in Ids, v \in Values, p \in Patches :
          IF Live(r)
          THEN edit' = [edit EXCEPT ![e] =
                          [NoEdit EXCEPT !.pc = "write", !.id = r,
                              !.given = p \intersect Editable(KindOf[r]),
                              !.draft = Merged(r, p \intersect Editable(KindOf[r]), v),
                              !.version = row[r].version]]
          ELSE Answer(e)
    BY <1>1 DEF Fetch
  <2> DEFINE s == p \intersect Editable(KindOf[r])
  <2>3. s \in SUBSET Columns
    BY EditableColumns, KindsOfRows
  <2>4. [NoEdit EXCEPT !.pc = "write", !.id = r, !.given = s,
            !.draft = Merged(r, s, v), !.version = row[r].version] \in Edits
    BY <2>3, MergedContents DEF NoEdit, Edits, Phases, TypeOK, Rows
  <2>5. edit' \in [Editors -> Edits]
    BY <2>1, <2>4, AnswerTyped DEF TypeOK
  <2> QED
    BY <1>1, <2>5 DEF Fetch, TypeOK
<1>2. CASE Miss(e)
  <2>1. [NoEdit EXCEPT !.pc = "conflict", !.touched = edit[e].touched] \in Edits
    BY EmptyContents DEF NoEdit, Edits, Phases, TypeOK
  <2>2. edit' \in [Editors -> Edits]
    BY <1>2, <2>1, AnswerTyped DEF Miss, TypeOK
  <2> QED
    BY <1>2, <2>2 DEF Miss, TypeOK
<1>3. CASE Duplicate(e)
  BY <1>3, AnswerTyped DEF Duplicate, TypeOK
<1>4. CASE Write(e)
  <2> DEFINE r == edit[e].id
             new == [c \in Columns |-> IF c \in edit[e].given THEN edit[e].draft[c]
                                       ELSE want[r][c]]
  <2>1. r \in Ids /\ edit[e].draft \in Contents
    BY <1>4 DEF Write, TypeOK, Edits
  <2>2. Written(r, edit[e].draft) \in Contents
    BY <2>1 DEF Written, Contents, TypeOK, Rows
  <2>3. new \in Contents
    BY <2>1 DEF Contents, TypeOK
  <2>4. VersionAfterEdit(r) \in Nat \ {0}
    BY <2>1 DEF TypeOK, Rows, VersionAfterEdit
  <2>5. row' \in [Ids -> Rows]
    BY <1>4, <2>1, <2>2, <2>4 DEF Write, TypeOK, Rows
  <2>6. want' \in [Ids -> Contents]
    BY <1>4, <2>1, <2>3 DEF Write, TypeOK
  <2>8. taken' \in [Ids -> SUBSET Columns]
    <3>1. taken[r] \ edit[e].given \in SUBSET Columns
      BY <2>1 DEF TypeOK
    <3> QED
      BY <1>4, <2>1, <3>1, TakenByTyped DEF Write
  <2>7. edit' \in [Editors -> Edits]
    BY <1>4, OvertakenTyped, NoEditTyped DEF Write
  <2> QED
    BY <1>4, <2>5, <2>6, <2>7, <2>8, CountTyped DEF Write, TypeOK
<1> QED
  BY <1>1, <1>2, <1>3, <1>4 DEF Request

-----------------------------------------------------------------------------
(* The invariant                                                             *)

InHand(e) == edit[e].pc = "write"

Known(e) == InHand(e) => /\ edit[e].id \in Ids
                         /\ row[edit[e].id].life # "fresh"
                         /\ edit[e].given \subseteq Editable(KindOf[edit[e].id])

\* Of the columns it was not given, the request has what the row shows.
Agrees(e) == \A c \in Editable(KindOf[edit[e].id]) \ edit[e].given :
                edit[e].draft[c] = Shown(c, row[edit[e].id].val[c])

\* Without a write in between, the row is as it was read.
UpToDate(e) ==
    InHand(e) /\ ~edit[e].touched =>
        /\ Live(edit[e].id)
        /\ row[edit[e].id].version = edit[e].version
        /\ Agrees(e)

\* Versions only grow, and a row with the version that was read is as it was.
VersionTells(e) ==
    InHand(e) /\ edit[e].id \in Versioned /\ Live(edit[e].id) =>
        /\ edit[e].version <= row[edit[e].id].version
        /\ row[edit[e].id].version = edit[e].version => Agrees(e)

EditInv(e) == Known(e) /\ UpToDate(e) /\ VersionTells(e)

\* What the row x should show, and whether it does.
Due(x, c) == IF c \in taken[x] THEN Nothing ELSE want[x][c]
Kept(x)   == \A c \in Columns : Shown(c, row[x].val[c]) = Shown(c, Due(x, c))

RowInv(x) == /\ row[x].life = "fresh" => want[x] = Empty /\ taken[x] = {}
             /\ "rating" \notin taken[x]
             /\ x \in Versioned /\ Live(x) => Kept(x)

RecordsInv == /\ TypeOK
              /\ \A e \in Editors : EditInv(e)
              /\ \A x \in Ids : RowInv(x)
              /\ ConflictIsReal

LEMMA InitInv == Init => RecordsInv
<1> SUFFICES ASSUME Init PROVE RecordsInv
  OBVIOUS
<1>1. \A e \in Editors : edit[e].pc = "idle"
  BY DEF Init, NoEdit
<1>2. \A r \in Ids : ~Live(r)
  BY DEF Init, Fresh, Live
<1>3. \A x \in Ids : RowInv(x)
  BY <1>2 DEF Init, RowInv
<1> QED
  BY <1>1, <1>2, <1>3, InitTypes
     DEF RecordsInv, EditInv, Known, UpToDate, VersionTells, InHand, ConflictIsReal

\* A row that is not written.
LEMMA SameRow ==
    ASSUME NEW x \in Ids, RowInv(x),
           row'[x] = row[x], want'[x] = want[x], taken'[x] = taken[x]
    PROVE  RowInv(x)'
BY DEF RowInv, Kept, Due, Live, Versioned

\* Statements leave a request as it is or out of date.
LEMMA OvertakenEdit ==
    ASSUME TypeOK, NEW R, NEW e \in Editors, edit' = Overtaken(R)
    PROVE  /\ edit'[e].pc = edit[e].pc /\ edit'[e].id = edit[e].id
           /\ edit'[e].given = edit[e].given /\ edit'[e].draft = edit[e].draft
           /\ edit'[e].version = edit[e].version
           /\ edit[e].touched => edit'[e].touched
           /\ InHand(e) /\ edit[e].id \in R => edit'[e].touched
           /\ ~InHand(e) => edit'[e] = edit[e]
BY DEF Overtaken, TypeOK, Edits, InHand

\* A request about another row than those that are written.
LEMMA OtherRow ==
    ASSUME NEW e \in Editors, EditInv(e),
           edit'[e].pc = edit[e].pc, edit'[e].id = edit[e].id,
           edit'[e].given = edit[e].given, edit'[e].draft = edit[e].draft,
           edit'[e].version = edit[e].version,
           edit[e].touched => edit'[e].touched,
           InHand(e) => row'[edit[e].id] = row[edit[e].id]
    PROVE  EditInv(e)'
BY DEF EditInv, Known, UpToDate, VersionTells, Agrees, InHand, Live, Versioned

\* A request about a row that is written under it, to a new version if it has
\* one.
LEMMA OvertakenRow ==
    ASSUME TypeOK, NEW e \in Editors, EditInv(e), InHand(e),
           edit'[e].pc = edit[e].pc, edit'[e].id = edit[e].id,
           edit'[e].given = edit[e].given, edit'[e].draft = edit[e].draft,
           edit'[e].version = edit[e].version, edit'[e].touched,
           row'[edit[e].id].life # "fresh",
           edit[e].id \in Versioned /\ row'[edit[e].id].life = "live" =>
              /\ Live(edit[e].id)
              /\ row'[edit[e].id].version = row[edit[e].id].version + 1
    PROVE  EditInv(e)'
<1>1. Known(e)' /\ UpToDate(e)'
  BY DEF EditInv, Known, UpToDate, InHand
<1>2. ASSUME edit[e].id \in Versioned, row'[edit[e].id].life = "live"
      PROVE  edit[e].version < row'[edit[e].id].version
  <2>1. edit[e].version <= row[edit[e].id].version
    BY <1>2 DEF EditInv, VersionTells
  <2>2. edit[e].version \in Nat /\ row[edit[e].id].version \in Nat
    BY DEF TypeOK, Edits, Rows, EditInv, Known
  <2> QED
    BY <1>2, <2>1, <2>2
<1>3. ASSUME InHand(e)', edit'[e].id \in Versioned, Live(edit[e].id)'
      PROVE  edit'[e].version < row'[edit'[e].id].version
  BY <1>2, <1>3 DEF Live
<1>4. edit'[e].version \in Nat
  BY DEF TypeOK, Edits
<1>5. ASSUME edit'[e].id \in Versioned, Live(edit[e].id)'
      PROVE  row'[edit'[e].id].version \in Nat
  BY <1>5 DEF Live, TypeOK, Rows, EditInv, Known
<1>6. VersionTells(e)'
  <2> SUFFICES ASSUME InHand(e)', (edit[e].id \in Versioned)', Live(edit[e].id)'
               PROVE  /\ edit'[e].version <= row'[edit'[e].id].version
                      /\ row'[edit'[e].id].version # edit'[e].version
    BY DEF VersionTells
  <2>1. edit'[e].id \in Versioned
    BY DEF Versioned
  <2> QED
    BY <2>1, <1>3, <1>4, <1>5
<1> QED
  BY <1>1, <1>6 DEF EditInv

-----------------------------------------------------------------------------
(* Statements                                                                *)

LEMMA CreateKeeps ==
    ASSUME RecordsInv, NEW r \in Ids, Create(r)
    PROVE  (\A e \in Editors : EditInv(e)') /\ (\A x \in Ids : RowInv(x)') /\ ConflictIsReal'
<1>1. PICK v \in Values, s \in {Created(KindOf[r])}
                  \union {MergeKey(KindOf[r]) \union has : has \in Supplied(KindOf[r])} :
        /\ row' = [row EXCEPT ![r] = [life |-> "live", version |-> FirstVersion,
                                      val |-> Laid(Empty, s, v)]]
        /\ want' = Meant(r, s, v)
  BY DEF Create
<1>2. row[r].life = "fresh" /\ edit' = edit /\ taken' = taken
  BY DEF Create
<1>3. ASSUME NEW e \in Editors PROVE EditInv(e)'
  <2>1. InHand(e) => row'[edit[e].id] = row[edit[e].id]
    BY <1>1, <1>2 DEF RecordsInv, EditInv, Known, TypeOK
  <2> QED
    BY <1>2, <2>1, OtherRow DEF RecordsInv
<1>4. ASSUME NEW x \in Ids PROVE RowInv(x)'
  <2>1. CASE x # r
    <3>1. row'[x] = row[x] /\ want'[x] = want[x]
      BY <1>1, <2>1 DEF RecordsInv, TypeOK, Meant
    <3> QED
      BY <1>2, <3>1, SameRow DEF RecordsInv
  <2>2. CASE x = r /\ r \in Versioned
    <3>1. want[r] = Empty /\ taken'[r] = {}
      BY <1>2 DEF RecordsInv, RowInv
    <3>2. row'[r].val = Laid(Empty, s, v) /\ row'[r].life = "live"
      BY <1>1 DEF RecordsInv, TypeOK
    <3>3. want'[r] = Laid(Empty, s, v)
      BY <1>1, <2>2, <3>1 DEF RecordsInv, TypeOK, Meant
    <3> QED
      BY <2>2, <3>1, <3>2, <3>3 DEF RowInv, Kept, Due
  <2>3. CASE x = r /\ r \notin Versioned
    <3>1. row'[r].life = "live" /\ "rating" \notin taken'[r]
      BY <1>1, <1>2 DEF RecordsInv, TypeOK, RowInv
    <3> QED
      BY <2>3, <3>1 DEF RowInv, Versioned
  <2> QED
    BY <2>1, <2>2, <2>3
<1>5. ConflictIsReal'
  BY <1>2 DEF RecordsInv, ConflictIsReal
<1> QED
  BY <1>3, <1>4, <1>5

LEMMA ImportKeeps ==
    ASSUME RecordsInv, NEW r \in Ids, Import(r)
    PROVE  (\A e \in Editors : EditInv(e)') /\ (\A x \in Ids : RowInv(x)') /\ ConflictIsReal'
<1>1. PICK v \in Values, has \in Supplied(KindOf[r]) :
        /\ row' = [row EXCEPT ![r].version = VersionAfterImport(r),
                              ![r].val = Refreshed(r, has, v)]
        /\ want' = Meant(r, has, v)
        /\ taken' = TakenBy(r, (taken[r] \union Overwritten(KindOf[r])) \ has)
  BY DEF Import
<1>2. Live(r) /\ edit' = Overtaken({r})
  BY DEF Import
<1>3. ASSUME NEW e \in Editors PROVE EditInv(e)'
  <2>1. CASE InHand(e) /\ edit[e].id = r
    <3>1. row'[r].life = "live"
      BY <1>1, <1>2 DEF RecordsInv, TypeOK, Rows, Live
    <3>2. r \in Versioned => row'[r].version = row[r].version + 1
      BY <1>1 DEF RecordsInv, TypeOK, Rows, VersionAfterImport
    <3> QED
      BY <1>2, <2>1, <3>1, <3>2, OvertakenEdit, OvertakenRow DEF RecordsInv
  <2>2. CASE ~(InHand(e) /\ edit[e].id = r)
    <3>1. InHand(e) => row'[edit[e].id] = row[edit[e].id]
      BY <1>1, <2>2 DEF RecordsInv, TypeOK, EditInv, Known
    <3> QED
      BY <1>2, <3>1, OvertakenEdit, OtherRow DEF RecordsInv
  <2> QED
    BY <2>1, <2>2
<1>4. ASSUME NEW x \in Ids PROVE RowInv(x)'
  <2>1. CASE x # r
    <3>1. row'[x] = row[x] /\ want'[x] = want[x] /\ taken'[x] = taken[x]
      BY <1>1, <2>1 DEF RecordsInv, TypeOK, Meant, TakenBy
    <3> QED
      BY <3>1, SameRow DEF RecordsInv
  <2>2. CASE x = r
    <3>1. row'[r].val = Refreshed(r, has, v) /\ row'[r].life = "live"
      BY <1>1, <1>2 DEF RecordsInv, TypeOK, Rows, Live
    <3>2. ASSUME r \in Versioned, NEW c \in Columns
          PROVE  Shown(c, row'[r].val[c]) = Shown(c, Due(r, c)')
      <4>1. Shown(c, row[r].val[c]) = Shown(c, Due(r, c))
        BY <1>2, <3>2 DEF RecordsInv, RowInv, Kept
      <4>2. /\ want'[r] = Laid(want[r], has, v)
            /\ taken'[r] = (taken[r] \union Overwritten(KindOf[r])) \ has
        BY <1>1, <3>2 DEF RecordsInv, TypeOK, Meant, TakenBy
      <4>3. CASE c \in has
        BY <3>1, <4>2, <4>3 DEF Refreshed, Laid, Due
      <4>4. CASE c \notin has /\ c \in Overwritten(KindOf[r])
        BY <3>1, <4>2, <4>4 DEF Refreshed, Due
      <4>5. CASE c \notin has /\ c \notin Overwritten(KindOf[r])
        BY <3>1, <4>1, <4>2, <4>5 DEF Refreshed, Laid, Due
      <4> QED
        BY <4>3, <4>4, <4>5
    <3>3. "rating" \notin taken'[r]
      <4>1. "rating" \notin taken[r] /\ "rating" \notin Overwritten(KindOf[r])
        BY DEF RecordsInv, RowInv, Overwritten
      <4> QED
        BY <1>1, <4>1 DEF RecordsInv, TypeOK, TakenBy
    <3> QED
      BY <2>2, <3>1, <3>2, <3>3 DEF RowInv, Kept, Versioned
  <2> QED
    BY <2>1, <2>2
<1>5. ConflictIsReal'
  BY <1>2, OvertakenEdit DEF RecordsInv, ConflictIsReal
<1> QED
  BY <1>3, <1>4, <1>5

LEMMA RecalculateKeeps ==
    ASSUME RecordsInv, NEW r \in Ids, Recalculate(r)
    PROVE  (\A e \in Editors : EditInv(e)') /\ (\A x \in Ids : RowInv(x)') /\ ConflictIsReal'
<1>1. PICK v \in Values :
        /\ row' = [row EXCEPT ![r].version = VersionAfterRecalculation(r),
                              ![r].val = Laid(row[r].val, {"rating"}, v)]
        /\ want' = Meant(r, {"rating"}, v)
  BY DEF Recalculate
<1>2. Live(r) /\ edit' = edit /\ taken' = taken
  BY DEF Recalculate
<1>3. \A x \in Ids : /\ row'[x].life = row[x].life
                     /\ row'[x].version = row[x].version
  BY <1>1 DEF RecordsInv, TypeOK, Rows, VersionAfterRecalculation
<1>4. \A x \in Ids : \A c \in Editable(KindOf[x]) : row'[x].val[c] = row[x].val[c]
  <2> SUFFICES ASSUME NEW x \in Ids, NEW c \in Editable(KindOf[x])
               PROVE  row'[x].val[c] = row[x].val[c]
    OBVIOUS
  <2>1. c \in Columns /\ c \notin {"rating"}
    BY EditableColumns, KindsOfRows
  <2>2. row'[r].val = Laid(row[r].val, {"rating"}, v)
    BY <1>1 DEF RecordsInv, TypeOK, Rows
  <2>3. CASE x = r
    BY <2>1, <2>2, <2>3, LaidElsewhere
  <2>4. CASE x # r
    BY <1>1, <2>4 DEF RecordsInv, TypeOK
  <2> QED
    BY <2>3, <2>4
<1>5. ASSUME NEW e \in Editors PROVE EditInv(e)'
  <2>1. EditInv(e) /\ (InHand(e) => edit[e].id \in Ids)
    BY DEF RecordsInv, EditInv, Known
  <2>2. InHand(e) /\ Agrees(e) => Agrees(e)'
    BY <1>2, <1>4, <2>1 DEF Agrees
  <2> QED
    BY <1>2, <1>3, <2>1, <2>2
       DEF EditInv, Known, UpToDate, VersionTells, InHand, Live, Versioned
<1>6. ASSUME NEW x \in Ids PROVE RowInv(x)'
  <2>1. CASE x # r
    <3>1. row'[x] = row[x] /\ want'[x] = want[x]
      BY <1>1, <2>1 DEF RecordsInv, TypeOK, Meant
    <3> QED
      BY <1>2, <3>1, SameRow DEF RecordsInv
  <2>2. CASE x = r
    <3>1. row'[r].val = Laid(row[r].val, {"rating"}, v) /\ row'[r].life = "live"
      BY <1>1, <1>2 DEF RecordsInv, TypeOK, Rows, Live
    <3>2. "rating" \notin taken[r]
      BY <1>2 DEF RecordsInv, RowInv
    <3>3. ASSUME r \in Versioned, NEW c \in Columns
          PROVE  Shown(c, row'[r].val[c]) = Shown(c, Due(r, c)')
      <4>1. Shown(c, row[r].val[c]) = Shown(c, Due(r, c))
        BY <1>2, <3>3 DEF RecordsInv, RowInv, Kept
      <4>2. want'[r] = Laid(want[r], {"rating"}, v)
        BY <1>1, <3>3 DEF RecordsInv, TypeOK, Meant
      <4> QED
        BY <1>2, <3>1, <3>2, <4>1, <4>2 DEF Laid, Due
    <3> QED
      BY <1>2, <2>2, <3>1, <3>2, <3>3 DEF RowInv, Kept, Versioned
  <2> QED
    BY <2>1, <2>2
<1>7. ConflictIsReal'
  BY <1>2 DEF RecordsInv, ConflictIsReal
<1> QED
  BY <1>5, <1>6, <1>7

LEMMA DeleteKeeps ==
    ASSUME RecordsInv, NEW r \in Ids, Delete(r)
    PROVE  (\A e \in Editors : EditInv(e)') /\ (\A x \in Ids : RowInv(x)') /\ ConflictIsReal'
<1> DEFINE out == {r} \union Children(r)
<1>1. /\ row' = [x \in Ids |-> IF x \in out THEN Gone ELSE row[x]]
      /\ want' = [x \in Ids |-> IF x \in out THEN Empty ELSE want[x]]
      /\ taken' = [x \in Ids |-> IF x \in out THEN {} ELSE taken[x]]
      /\ edit' = Overtaken(out)
  BY DEF Delete
<1> HIDE DEF out
<1>2. ASSUME NEW e \in Editors PROVE EditInv(e)'
  <2>1. CASE InHand(e) /\ edit[e].id \in out
    <3>1. row'[edit[e].id] = Gone
      BY <1>1, <2>1 DEF RecordsInv, EditInv, Known
    <3> QED
      BY <1>1, <2>1, <3>1, OvertakenEdit, OvertakenRow DEF RecordsInv, Gone
  <2>2. CASE ~(InHand(e) /\ edit[e].id \in out)
    <3>1. InHand(e) => row'[edit[e].id] = row[edit[e].id]
      BY <1>1, <2>2 DEF RecordsInv, EditInv, Known
    <3> QED
      BY <1>1, <3>1, OvertakenEdit, OtherRow DEF RecordsInv
  <2> QED
    BY <2>1, <2>2
<1>3. ASSUME NEW x \in Ids PROVE RowInv(x)'
  <2>1. CASE x \in out
    BY <1>1, <2>1 DEF RowInv, Gone, Live
  <2>2. CASE x \notin out
    BY <1>1, <2>2, SameRow DEF RecordsInv
  <2> QED
    BY <2>1, <2>2
<1>4. ConflictIsReal'
  BY <1>1, OvertakenEdit DEF RecordsInv, ConflictIsReal
<1> QED
  BY <1>2, <1>3, <1>4

-----------------------------------------------------------------------------
(* Requests                                                                  *)

\* A request that is answered, or not begun, promises nothing.
LEMMA Answered ==
    ASSUME RecordsInv, NEW e \in Editors, UNCHANGED row,
           \A x \in Editors \ {e} : edit'[x] = edit[x],
           EditInv(e)'
    PROVE  \A x \in Editors : EditInv(x)'
BY OtherRow DEF RecordsInv

LEMMA AnswerKeeps ==
    ASSUME RecordsInv, NEW e \in Editors, Answer(e), UNCHANGED <<row, want, taken>>
    PROVE  (\A x \in Editors : EditInv(x)') /\ (\A x \in Ids : RowInv(x)') /\ ConflictIsReal'
<1>1. edit'[e] = NoEdit /\ \A x \in Editors \ {e} : edit'[x] = edit[x]
  BY DEF Answer, RecordsInv, TypeOK
<1>2. EditInv(e)'
  BY <1>1 DEF NoEdit, EditInv, Known, UpToDate, VersionTells, InHand
<1>3. \A x \in Editors : EditInv(x)'
  BY <1>1, <1>2, Answered
<1>4. ConflictIsReal'
  BY <1>1 DEF RecordsInv, ConflictIsReal, NoEdit
<1>5. \A x \in Ids : RowInv(x)'
  BY SameRow DEF RecordsInv
<1> QED
  BY <1>3, <1>4, <1>5

LEMMA FetchKeeps ==
    ASSUME RecordsInv, NEW e \in Editors, Fetch(e)
    PROVE  (\A x \in Editors : EditInv(x)') /\ (\A x \in Ids : RowInv(x)') /\ ConflictIsReal'
<1>0. UNCHANGED <<row, want, taken>>
  BY DEF Fetch
<1>1. PICK r \in Ids, v \in Values, p \in Patches :
        IF Live(r)
        THEN edit' = [edit EXCEPT ![e] =
                        [NoEdit EXCEPT !.pc = "write", !.id = r,
                            !.given = p \intersect Editable(KindOf[r]),
                            !.draft = Merged(r, p \intersect Editable(KindOf[r]), v),
                            !.version = row[r].version]]
        ELSE Answer(e)
  BY DEF Fetch
<1> DEFINE s == p \intersect Editable(KindOf[r])
<1>3. CASE ~Live(r)
  BY <1>0, <1>1, <1>3, AnswerKeeps
<1>4. CASE Live(r)
  <2>1. /\ edit'[e].pc = "write" /\ edit'[e].id = r /\ edit'[e].given = s
        /\ edit'[e].draft = Merged(r, s, v) /\ edit'[e].version = row[r].version
        /\ \A x \in Editors \ {e} : edit'[x] = edit[x]
    BY <1>1, <1>4 DEF RecordsInv, TypeOK, NoEdit
  <2>2. Agrees(e)'
    <3>1. Editable(KindOf[r]) \subseteq Columns
      BY EditableColumns, KindsOfRows
    <3> QED
      BY <1>0, <2>1, <3>1 DEF Agrees, Merged
  <2>3. row[r].version \in Nat
    BY DEF RecordsInv, TypeOK, Rows
  <2>4. EditInv(e)'
    BY <1>0, <1>4, <2>1, <2>2, <2>3
       DEF EditInv, Known, UpToDate, VersionTells, InHand, Live
  <2>5. \A x \in Editors : EditInv(x)'
    BY <1>0, <2>1, <2>4, Answered
  <2>6. ConflictIsReal'
    BY <2>1 DEF RecordsInv, ConflictIsReal
  <2>7. \A x \in Ids : RowInv(x)'
    BY <1>0, SameRow DEF RecordsInv
  <2> QED
    BY <2>5, <2>6, <2>7
<1> QED
  BY <1>3, <1>4

LEMMA MissKeeps ==
    ASSUME RecordsInv, NEW e \in Editors, Miss(e)
    PROVE  (\A x \in Editors : EditInv(x)') /\ (\A x \in Ids : RowInv(x)') /\ ConflictIsReal'
<1>0. UNCHANGED <<row, want, taken>> /\ InHand(e) /\ ~Matches(e)
  BY DEF Miss, InHand
<1>1. CASE edit[e].id \notin Versioned
  BY <1>0, <1>1, AnswerKeeps DEF Miss
<1>2. CASE edit[e].id \in Versioned
  <2>1. /\ edit'[e].pc = "conflict" /\ edit'[e].touched = edit[e].touched
        /\ \A x \in Editors \ {e} : edit'[x] = edit[x]
    BY <1>2 DEF Miss, RecordsInv, TypeOK, NoEdit
  <2>2. edit[e].touched
    BY <1>0, <1>2 DEF RecordsInv, EditInv, UpToDate, Matches
  <2>3. EditInv(e)'
    BY <2>1 DEF EditInv, Known, UpToDate, VersionTells, InHand
  <2>4. \A x \in Editors : EditInv(x)'
    BY <1>0, <2>1, <2>3, Answered
  <2>5. ConflictIsReal'
    BY <2>1, <2>2 DEF RecordsInv, ConflictIsReal
  <2>6. \A x \in Ids : RowInv(x)'
    BY <1>0, SameRow DEF RecordsInv
  <2> QED
    BY <2>4, <2>5, <2>6
<1> QED
  BY <1>1, <1>2

\* What an UPDATE that meets its row shows in the columns it was not given.
LEMMA WriteAgrees ==
    ASSUME RecordsInv, NEW e \in Editors, Write(e),
           ~edit[e].touched \/ edit[e].id \in Versioned,
           NEW c \in Columns \ edit[e].given
    PROVE  Shown(c, row'[edit[e].id].val[c]) = Shown(c, row[edit[e].id].val[c])
<1> DEFINE r == edit[e].id
<1>1. r \in Ids /\ InHand(e) /\ Matches(e)
  BY DEF Write, InHand, RecordsInv, EditInv, Known
<1>2. Agrees(e)
  BY <1>1 DEF RecordsInv, EditInv, UpToDate, VersionTells, Matches
<1>3. row'[r].val = Written(r, edit[e].draft)
  BY <1>1 DEF Write, RecordsInv, TypeOK, Rows
<1>4. CASE c \in Editable(KindOf[r])
  BY <1>2, <1>3, <1>4, ShownTwice DEF Written, Agrees
<1>5. CASE c \notin Editable(KindOf[r])
  BY <1>3, <1>5 DEF Written
<1> QED
  BY <1>4, <1>5

LEMMA WriteKeeps ==
    ASSUME RecordsInv, NEW e \in Editors, Write(e)
    PROVE  (\A x \in Editors : EditInv(x)') /\ (\A x \in Ids : RowInv(x)') /\ ConflictIsReal'
<1> DEFINE r == edit[e].id
           meant == [c \in Columns |-> IF c \in edit[e].given THEN edit[e].draft[c]
                                       ELSE want[r][c]]
<1>1. /\ r \in Ids /\ InHand(e) /\ Matches(e) /\ Live(r)
      /\ edit[e].given \subseteq Editable(KindOf[r])
  BY DEF Write, InHand, Matches, RecordsInv, EditInv, Known
<1>2. /\ row' = [row EXCEPT ![r].version = VersionAfterEdit(r),
                            ![r].val = Written(r, edit[e].draft)]
      /\ want' = IF r \in Versioned THEN [want EXCEPT ![r] = meant] ELSE want
      /\ taken' = TakenBy(r, taken[r] \ edit[e].given)
      /\ edit' = [Overtaken({r}) EXCEPT ![e] = NoEdit]
  BY DEF Write
<1>3. Overtaken({r}) \in [Editors -> Edits]
  BY OvertakenTyped DEF RecordsInv
<1>4. edit'[e] = NoEdit
  BY <1>2, <1>3
<1>5. ASSUME NEW x \in Editors, x # e
      PROVE  edit'[x] = IF InHand(x) /\ edit[x].id = r
                        THEN [edit[x] EXCEPT !.touched = TRUE] ELSE edit[x]
  BY <1>2, <1>5 DEF Overtaken, InHand
<1>6. ASSUME NEW x \in Editors PROVE EditInv(x)'
  <2>1. CASE x = e
    BY <1>4, <2>1 DEF NoEdit, EditInv, Known, UpToDate, VersionTells, InHand
  <2>2. CASE x # e /\ InHand(x) /\ edit[x].id = r
    <3>1. /\ edit'[x].pc = edit[x].pc /\ edit'[x].id = edit[x].id
          /\ edit'[x].given = edit[x].given /\ edit'[x].draft = edit[x].draft
          /\ edit'[x].version = edit[x].version /\ edit'[x].touched
      BY <1>5, <2>2 DEF RecordsInv, TypeOK, Edits
    <3>2. row'[r].life = "live"
      BY <1>1, <1>2 DEF RecordsInv, TypeOK, Rows, Live
    <3>3. r \in Versioned => row'[r].version = row[r].version + 1
      BY <1>1, <1>2 DEF RecordsInv, TypeOK, Rows, VersionAfterEdit
    <3> QED
      BY <1>1, <2>2, <3>1, <3>2, <3>3, OvertakenRow DEF RecordsInv
  <2>3. CASE x # e /\ ~(InHand(x) /\ edit[x].id = r)
    <3>1. edit'[x] = edit[x]
      BY <1>5, <2>3
    <3>2. InHand(x) => row'[edit[x].id] = row[edit[x].id]
      BY <1>2, <2>3 DEF RecordsInv, TypeOK, EditInv, Known
    <3> QED
      BY <3>1, <3>2, OtherRow DEF RecordsInv
  <2> QED
    BY <2>1, <2>2, <2>3
<1>7. ASSUME NEW x \in Ids PROVE RowInv(x)'
  <2>1. CASE x # r
    <3>1. row'[x] = row[x] /\ want'[x] = want[x] /\ taken'[x] = taken[x]
      BY <1>2, <2>1 DEF RecordsInv, TypeOK, TakenBy
    <3> QED
      BY <3>1, SameRow DEF RecordsInv
  <2>2. CASE x = r
    <3>1. row'[x].val = Written(r, edit[e].draft) /\ row'[x].life = "live"
      BY <1>1, <1>2, <2>2 DEF RecordsInv, TypeOK, Rows, Live
    <3>2. ASSUME x \in Versioned, NEW c \in Columns
          PROVE  Shown(c, row'[x].val[c]) = Shown(c, Due(x, c)')
      <4>1. Shown(c, row[x].val[c]) = Shown(c, Due(x, c))
        BY <1>1, <2>2, <3>2 DEF RecordsInv, RowInv, Kept
      <4>2. want'[x] = meant /\ taken'[x] = taken[x] \ edit[e].given
        BY <1>1, <1>2, <2>2, <3>2 DEF RecordsInv, TypeOK, TakenBy
      <4>3. CASE c \in edit[e].given
        BY <1>1, <3>1, <4>2, <4>3 DEF Written, Due
      <4>4. CASE c \notin edit[e].given
        <5>1. Shown(c, row'[x].val[c]) = Shown(c, row[x].val[c])
          BY <2>2, <3>2, <4>4, WriteAgrees
        <5>2. Due(x, c)' = Due(x, c)
          BY <2>2, <4>2, <4>4 DEF Due
        <5> QED
          BY <4>1, <5>1, <5>2
      <4> QED
        BY <4>3, <4>4
    <3>3. "rating" \notin taken'[x]
      BY <1>1, <1>2, <2>2 DEF RecordsInv, TypeOK, RowInv, TakenBy
    <3> QED
      BY <3>1, <3>2, <3>3 DEF RowInv, Kept, Versioned
  <2> QED
    BY <2>1, <2>2
<1>8. ConflictIsReal'
  <2> SUFFICES ASSUME NEW x \in Editors, edit'[x].pc = "conflict" PROVE edit'[x].touched
    BY DEF ConflictIsReal
  <2>1. x # e
    BY <1>4 DEF NoEdit
  <2>2. edit'[x] = edit[x]
    BY <1>5, <2>1 DEF RecordsInv, TypeOK, Edits, InHand
  <2> QED
    BY <2>2 DEF RecordsInv, ConflictIsReal
<1> QED
  BY <1>6, <1>7, <1>8

-----------------------------------------------------------------------------
(* Theorems                                                                  *)

LEMMA InvStep == RecordsInv /\ [Next]_vars => RecordsInv'
<1> SUFFICES ASSUME RecordsInv, [Next]_vars PROVE RecordsInv'
  OBVIOUS
<1>1. ASSUME NEW r \in Ids, Statement(r) PROVE RecordsInv'
  <2>1. TypeOK'
    BY <1>1, StatementTypes DEF RecordsInv
  <2> QED
    BY <1>1, <2>1, CreateKeeps, ImportKeeps, RecalculateKeeps, DeleteKeeps
       DEF RecordsInv, Statement
<1>2. ASSUME NEW e \in Editors, Request(e) PROVE RecordsInv'
  <2>1. TypeOK'
    BY <1>2, RequestTypes DEF RecordsInv, EditInv, Known, InHand
  <2>2. Duplicate(e) => Answer(e) /\ UNCHANGED <<row, want, taken>>
    BY DEF Duplicate
  <2> QED
    BY <1>2, <2>1, <2>2, FetchKeeps, MissKeeps, AnswerKeeps, WriteKeeps
       DEF RecordsInv, Request
<1>3. CASE UNCHANGED vars
  BY <1>3 DEF vars, RecordsInv, TypeOK, EditInv, Known, UpToDate, VersionTells, Agrees,
              InHand, Live, RowInv, Kept, Due, ConflictIsReal, Versioned
<1> QED
  BY <1>1, <1>2, <1>3 DEF Next

\* The types of rows and requests, whatever is edited, imported and deleted.
THEOREM TypeCorrect == Spec => []TypeOK
<1>1. RecordsInv => TypeOK
  BY DEF RecordsInv
<1> QED
  BY <1>1, InitInv, InvStep, PTL DEF Spec

\* No write to an employer or an assessment is undone by a PATCH that did not
\* give the column (Update of data/employers.go and data/assessments.go), an
\* import's clearing of the columns it lacks included.
THEOREM NothingIsReverted == Spec => []NothingReverted
<1>1. RecordsInv => NothingReverted
  BY DEF RecordsInv, RowInv, Kept, Due, NothingReverted, Versioned
<1> QED
  BY <1>1, InitInv, InvStep, PTL DEF Spec

\* A request is refused with a conflict only if there was one.
THEOREM ConflictsAreReal == Spec => []ConflictIsReal
<1>1. RecordsInv => ConflictIsReal
  BY DEF RecordsInv
<1> QED
  BY <1>1, InitInv, InvStep, PTL DEF Spec

\* Opportunities and applications, which have no version, lose a write only to
\* a PATCH that overlaps it.
THEOREM RevertsOverlap == Spec => RevertNeedsOverlap
<1> DEFINE Harmless == \A e \in Editors :
              Reverts(e) => edit[e].touched /\ edit[e].id \notin Versioned
<1>1. RecordsInv /\ [Next]_vars => [Harmless]_vars
  <2> SUFFICES ASSUME RecordsInv, Next, NEW e \in Editors, Reverts(e)
               PROVE  edit[e].touched /\ edit[e].id \notin Versioned
    BY DEF Harmless
  <2>1. PICK c \in Columns \ edit[e].given :
          Shown(c, row'[edit[e].id].val[c]) # Shown(c, row[edit[e].id].val[c])
    BY DEF Reverts
  <2>2. ASSUME NEW r \in Ids, Statement(r) PROVE FALSE
    <3>1. edit' = edit \/ \E R : edit' = Overtaken(R)
      BY <2>2 DEF Statement, Create, Import, Recalculate, Delete
    <3>2. edit'[e].pc = edit[e].pc
      BY <3>1, OvertakenEdit DEF RecordsInv
    <3> QED
      BY <3>2 DEF Reverts
  <2>3. PICK x \in Editors : Request(x)
    BY <2>2 DEF Next
  <2>4. Write(x)
    BY <2>1, <2>3 DEF Request, Fetch, Miss, Duplicate
  <2>5. x = e
    <3>1. Overtaken({edit[x].id})[e].pc = "write"
      BY DEF Reverts, Overtaken, RecordsInv, TypeOK, Edits
    <3>2. x # e => edit'[e] = Overtaken({edit[x].id})[e]
      BY <2>4 DEF Write, Overtaken
    <3> QED
      BY <3>1, <3>2 DEF Reverts
  <2> QED
    BY <2>1, <2>4, <2>5, WriteAgrees
<1>2. Spec => [][Harmless]_vars
  BY <1>1, InitInv, InvStep, PTL DEF Spec
<1> QED
  BY <1>2 DEF RevertNeedsOverlap
=============================================================================
