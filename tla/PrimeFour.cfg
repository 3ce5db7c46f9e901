\* What the primality test accepts.
SPECIFICATION Spec
CONSTANTS
    MaxI <- MaxIValue
    NIZ <- NIZValue
INVARIANTS AllPrime
CHECK_DEADLOCK FALSE
