------------------------------ MODULE MCRecords ------------------------------
(* Two employers; of the first, an assessment and an opportunity, which one  *)
(* user tracks.  To the model, a bookmark is an application nobody edits.    *)
EXTENDS Records, TLC

CONSTANTS e1, e2, a1, o1, t1

MCIds == {e1, e2, a1, o1, t1}
MCKindOf == (e1 :> "employer") @@ (e2 :> "employer") @@ (a1 :> "assessment")
            @@ (o1 :> "opportunity") @@ (t1 :> "application")
MCParent == (e1 :> Nothing) @@ (e2 :> Nothing) @@ (a1 :> e1)
            @@ (o1 :> e1) @@ (t1 :> o1)
\* Of these, a PATCH gives the columns that the row has.
MCPatches == {{"body", "list"}, {"slug", "detail", "flag"}}
Symmetry == Permutations(Editors) \union Permutations(Values)
=============================================================================
