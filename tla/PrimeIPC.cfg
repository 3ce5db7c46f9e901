\* Every order of the children's steps.
SPECIFICATION Spec
CONSTANTS
    MaxI <- MaxIValue
    NIZ <- NIZValue
INVARIANTS PrimeSound
PROPERTIES PublishedStable EndReachesAll CommandFinishes
CHECK_DEADLOCK FALSE
