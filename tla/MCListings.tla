------------------------------ MODULE MCListings ------------------------------
(* An instance of Listings: new rows are open on day 2 alone, and a file also *)
(* has rows that are over before they open.  Pages of one row, the longest    *)
(* walks, are looked at where there are no dates.                             *)
EXTENDS Listings
SomePeriods == {<<2, 2>>, <<3, 1>>}
SomeInit == WalkInit /\ (size = 1 => ~listing.query.dated)
SomeSpec == SomeInit /\ [][WalkNext]_listingVars
=============================================================================
