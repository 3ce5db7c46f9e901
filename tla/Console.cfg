\* Two readers, and lines that fill the buffer.
SPECIFICATION Spec
CONSTANTS
    Proc = {p1, p2}
    NoProc = NoProc
    Char = {"x", "y", "nl", "eot"}
    NL = "nl"
    EOT = "eot"
    INPUT_BUF = 3
    Wrap = 6
    MaxCount = 2
INVARIANTS ReaderSound
PROPERTIES IsLineQueue EndOfFileOnce
