\* Creations, cancellations, crashes and the sweep on a Docker or Podman host.
SPECIFICATION Spec
CONSTANTS
    Startups = {t1}
    Requests = {}
    Deletes = {d1}
    Cleaners = {c1}
    NoOne = NoOne
    MaxGeneration = 1
    Tokens = {k1, k2}
    NoToken = NoToken
    Kubernetes = FALSE
    DeleteAttempts = 2
    MaxRestarts = 1
    Disturbed = TRUE
SYMMETRY TokenSymmetry
INVARIANTS
    NoOrphan
PROPERTIES
    SweepSparesWanted
    SweepSparesForgotten
