\* Stops against startups and deletes, and the sweep's progress; no symmetry.
SPECIFICATION FairSpec
CONSTANTS
    Startups = {t1}
    Requests = {r1}
    Deletes = {d1}
    Cleaners = {c1}
    NoOne = NoOne
    MaxGeneration = 1
    Tokens = {k1}
    NoToken = NoToken
    Kubernetes = FALSE
    DeleteAttempts = 2
    MaxRestarts = 0
    Disturbed = TRUE
INVARIANTS
    StoppingHasStopper
PROPERTIES
    DeleteOwnsRow
    OrphanIsSwept
