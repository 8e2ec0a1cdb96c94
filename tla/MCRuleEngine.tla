---------------------------- MODULE MCRuleEngine ----------------------------
EXTENDS RuleEngine, TLC

CONSTANTS a, b, c

T(term, fits) == [term |-> term, fits |-> fits]
File(type, terms) == [load |-> TRUE, type |-> type, blocked |-> FALSE, terms |-> terms]

\* One file of each fate, and the ones that make types compete for the budget.
MCOutcome == {
    [File(ET_EXECVE, <<>>) EXCEPT !.load = FALSE],
    [File(ET_EXECVE, <<>>) EXCEPT !.blocked = TRUE],
    File(0, <<T(a, TRUE)>>),
    File(ET_EXECVE, <<T(a, TRUE)>>),
    File(ET_EXECVE, <<T(a, TRUE), T(b, TRUE)>>),
    File(ET_FILE, <<T(a, TRUE)>>),
    File(ET_FILE, <<T(b, TRUE), T(c, FALSE), T(a, TRUE)>>),
    File(ET_MODULE, <<T(a, TRUE)>>) }

FileSymmetry == Permutations(Files)
=============================================================================
