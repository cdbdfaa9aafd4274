\* A payload that only a ref the host already has brings along.
CONSTANTS
    LfsPods = {"p"}
    Payloads = {"x", "y"}
    LfsLoads <- LfsBounds
SPECIFICATION LfsSpec
CHECK_DEADLOCK FALSE
INVARIANT PayloadsPrecedeRefs
