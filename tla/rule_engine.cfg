SPECIFICATION Spec
CONSTANTS
    Files = {f1, f2, f3, f4}
    a = a
    b = b
    c = c
    Term = {a, b, c}
    Outcome <- MCOutcome
    MAX_KERNEL_RULES = 2
SYMMETRY FileSymmetry
INVARIANTS TypeOK BudgetRespected EveryTermCovered OneNotePerPermissiveType OrderIrrelevantWithinBudget
CHECK_DEADLOCK FALSE
