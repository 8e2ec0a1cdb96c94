SPECIFICATION Spec
CONSTANTS
    a = a
    b = b
    Char = {a, b, star, query}
    Star = star
    Query = query
    ModuleLoad <- MCModuleLoad
    Execve <- MCExecve
    Openat <- MCOpenat
    Connect <- MCConnect
    MAX_COMM = 2
    MAX_PATTERN_LEN = 2
    MAX_PATH_SCAN = 6
    FILE_BUF = 4
    EXEC_BUF = 8
    MAX_KERNEL_RULES = 2
    Files = {f1, f2, f3}
    Rules <- MCRules
    Calls <- MCCalls
    Cpus = {c1, c2}
SYMMETRY Symmetric
INVARIANTS TypeOK NoMissedDetection NothingForwardedInVain UnfilteredWhenUploadFails
CHECK_DEADLOCK FALSE
