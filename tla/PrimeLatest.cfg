\* The command latest.
SPECIFICATION Spec
CONSTANTS
    MaxI <- MaxIValue
    NIZ <- NIZValue
INVARIANTS LatestIsLatest
CHECK_DEADLOCK FALSE
