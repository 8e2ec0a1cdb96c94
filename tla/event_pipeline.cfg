SPECIFICATION Spec
CONSTANTS
    Source = {exec1, file1}
    ExecSource = {exec1}
    Uid = {root, alice}
    AgentUid = root
    NoName = noname
    Idle = idle
    RingSize = 2
    BatchSize = 2
    MaxEvents <- MCMaxEvents
INVARIANTS TypeOK OneLookupPerUser EvaluatedInOrder
PROPERTIES SourceOrderKept QuietPipelineDrains
CHECK_DEADLOCK FALSE
