\* Every line of up to MaxTokens tokens is parsed; SomeSessions are run.
SPECIFICATION Spec
CONSTANTS
    MAXARGS = 4
    NPROC = 6
    NOFILE = 6
    Word = {"a", "b"}
    MaxTokens = 5
    Sessions <- SomeSessions
    Files = {"f"}
    MaxFail = 2
INVARIANTS ParseRight StreamsRight ForegroundDone
PROPERTIES Settles
CHECK_DEADLOCK FALSE
