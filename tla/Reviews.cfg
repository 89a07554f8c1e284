\* One review, two administrators, a worker and the nightly job.
CONSTANTS
    Reviews = {r1}
    Ratings = {1, 5}
    Moderators = {m1, m2}
    Workers = {w1}
    Nightly = {n1}
    MaxQueued = 2
    Faults = {"db", "crash"}
SPECIFICATION FairSpec
INVARIANTS
    PublicIsModerated
    RatingsAreCurrent
PROPERTIES
    RatingsConverge
