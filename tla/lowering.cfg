SPECIFICATION Spec
CONSTANTS
    a = a
    b = b
    Char = {a, b, star, query}
    Star = star
    Query = query
    ModuleLoad <- MCModuleLoad
    Execve <- MCExecve
    Openat <- MCOpenat
    Connect <- MCConnect
    MAX_COMM = 2
    MAX_PATTERN_LEN = 2
    MAX_PATH_SCAN = 4
    Rules <- MCRules
    Events <- MCEvents
INVARIANTS KernelFilterIsSuperset FilterIsExactForAlternatives
CHECK_DEADLOCK FALSE
