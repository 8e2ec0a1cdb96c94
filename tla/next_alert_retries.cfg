SPECIFICATION Spec
CONSTANTS
    None = none
    MaxAlerts = 4
    MaxBatch = 2
    MaxStarts = 2
PROPERTIES NextAlertRetries
CHECK_DEADLOCK FALSE
