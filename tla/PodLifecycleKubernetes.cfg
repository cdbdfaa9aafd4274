\* The same on a Kubernetes host: pods run at once and cannot be stopped.
SPECIFICATION Spec
CONSTANTS
    Startups = {t1}
    Requests = {}
    Deletes = {d1}
    Cleaners = {c1}
    NoOne = NoOne
    MaxGeneration = 1
    Tokens = {k1, k2}
    NoToken = NoToken
    Kubernetes = TRUE
    DeleteAttempts = 2
    MaxRestarts = 1
    Disturbed = TRUE
SYMMETRY TokenSymmetry
INVARIANTS
    NoOrphan
