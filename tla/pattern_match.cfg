\* A buffer longer than the scan (execve) and one shorter (openat).
SPECIFICATION Spec
CONSTANTS
    Byte = {a, b}
    NUL = nul
    BufSizes = {4, 8}
    ArgvSizes = {8}
    M = 3
    MAX_PATH_SCAN = 5
    MaxLen = 6
INVARIANTS TypeOK VerdictIsAnchored
CHECK_DEADLOCK FALSE
