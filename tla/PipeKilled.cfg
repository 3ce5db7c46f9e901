\* kill between the test of killed and sleep.
SPECIFICATION Spec
CONSTANTS
    Proc = {p1, p2}
    NoProc = NoProc
    Byte = {0}
    PIPESIZE = 1
    Wrap = 2
    MaxCount = 2
INVARIANTS KilledAwake
CHECK_DEADLOCK FALSE
