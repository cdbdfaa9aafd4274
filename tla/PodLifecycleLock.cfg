\* The lifecycle lock: two startups, two overlapping deletes, two requests.
SPECIFICATION FairLockSpec
CONSTANTS
    Startups = {t1, t2}
    Requests = {r1, r2}
    Deletes = {d1, d2}
    Cleaners = {c1}
    NoOne = NoOne
    MaxGeneration = 2
INVARIANTS
    MutualExclusion
    LeaseNotStranded
PROPERTIES
    NoOvertakenAdmission
    NothingStartsDuringDelete
    DeleteAcquires
    RequestAnswered
