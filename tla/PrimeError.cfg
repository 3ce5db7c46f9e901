\* The command prime <n> for a prime that is in the array.
SPECIFICATION Spec
CONSTANTS
    MaxI <- MaxIValue
    NIZ <- NIZValue
INVARIANTS NoFalseError
CHECK_DEADLOCK FALSE
