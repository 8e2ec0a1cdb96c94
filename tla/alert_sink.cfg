SPECIFICATION Spec
CONSTANTS
    None = none
    MaxAlerts = 6
    MaxBatch = 3
    MaxStarts = 2
INVARIANTS TypeOK OneBatchPerRestart
PROPERTIES LogPromise EveryAlertWritten
CHECK_DEADLOCK FALSE
