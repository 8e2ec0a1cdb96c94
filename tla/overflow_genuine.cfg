SPECIFICATION Spec
CONSTANTS
    Files = {f1, f2, f3}
    a = a
    b = b
    c = c
    Term = {a, b, c}
    Outcome <- MCOutcome
    MAX_KERNEL_RULES = 2
INVARIANTS OverflowIsGenuine
CHECK_DEADLOCK FALSE
