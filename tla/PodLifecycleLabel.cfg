\* What the comment on the sweep says of later pods.
SPECIFICATION Spec
CONSTANTS
    Startups = {t1}
    Requests = {}
    Deletes = {d1}
    Cleaners = {c1}
    NoOne = NoOne
    MaxGeneration = 1
    Tokens = {k1, k2}
    NoToken = NoToken
    Kubernetes = FALSE
    DeleteAttempts = 2
    MaxRestarts = 0
    Disturbed = FALSE
SYMMETRY TokenSymmetry
PROPERTIES
    LabelProtectsSubsequentPods
