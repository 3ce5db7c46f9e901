\* primecalc calls get_shared while primecom is in it.
SPECIFICATION Spec
CONSTANTS
    MaxI <- MaxIValue
    NIZ <- NIZValue
INVARIANTS NoReleasePanic
CHECK_DEADLOCK FALSE
