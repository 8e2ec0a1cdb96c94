CONSTANTS
    Arches = {"x86_64", "aarch64"}
    Bases = {16, 24}
    MaxShort = 1
    MaxCalls = 3
SPECIFICATION Spec
INVARIANTS TypeOK NoSilentMisread WholeFileIsBelieved OpenCoverage EventIsOwn EventIsFaithful
CHECK_DEADLOCK FALSE
